---- MODULE Spec2Model ----
(***************************************************************************)
(* OptiMatch record reconciliation: the two validate handlers (the         *)
(* payload-based one of app/api/validate/route.ts and the URL-based one)   *)
(* as a state machine over one request: receive, index the source,         *)
(* evaluate each candidate, respond.                                       *)
(*                                                                         *)
(* A JavaScript string is a sequence of one-character strings, so that     *)
(* trimming, lower-casing, key normalisation and synonym folding are       *)
(* computed the way the code computes them.                                *)
(***************************************************************************)
EXTENDS Integers, Sequences, FiniteSets, TLC

(***************************************************************************)
(* Characters and strings                                                  *)
(***************************************************************************)
UpperChars ==
  << "A","B","C","D","E","F","G","H","I","J","K","L","M",
     "N","O","P","Q","R","S","T","U","V","W","X","Y","Z" >>

LowerChars ==
  << "a","b","c","d","e","f","g","h","i","j","k","l","m",
     "n","o","p","q","r","s","t","u","v","w","x","y","z" >>

DigitChars == << "0","1","2","3","4","5","6","7","8","9" >>

Range(s) == { s[i] : i \in DOMAIN s }

\* String.prototype.toLowerCase on one character.
LowerChar(c) ==
  IF \E i \in DOMAIN UpperChars : UpperChars[i] = c
  THEN LowerChars[CHOOSE i \in DOMAIN UpperChars : UpperChars[i] = c]
  ELSE c

toLowerCase(s) == [ i \in DOMAIN s |-> LowerChar(s[i]) ]

RECURSIVE TrimLeft(_, _)
TrimLeft(s, c) == IF s # << >> /\ Head(s) = c THEN TrimLeft(Tail(s), c) ELSE s

RECURSIVE TrimRight(_, _)
TrimRight(s, c) ==
  IF s # << >> /\ s[Len(s)] = c THEN TrimRight(SubSeq(s, 1, Len(s) - 1), c) ELSE s

\* String.prototype.trim (the whitespace of the model's alphabet is the blank).
trim(s) == TrimRight(TrimLeft(s, " "), " ")

\* s.replace(/[^a-z0-9]/g, '')
StripNonAlnum(s) == SelectSeq(s, LAMBDA c : c \in Range(LowerChars) \cup Range(DigitChars))

\* s.replace(/^_+|_+$/g, '')
StripUnderscoreEnds(s) == TrimRight(TrimLeft(s, "_"), "_")

\* The least position at which pat occurs in s, 0 if it does not occur.
IndexOf(s, pat) ==
  LET hits == { i \in 1 .. (Len(s) - Len(pat) + 1) :
                  SubSeq(s, i, i + Len(pat) - 1) = pat }
  IN IF hits = {} THEN 0 ELSE CHOOSE i \in hits : \A j \in hits : i <= j

\* s.replace(pat, rep) with a string pattern: the first occurrence only.
ReplaceFirst(s, pat, rep) ==
  LET i == IndexOf(s, pat)
  IN IF i = 0 THEN s
     ELSE SubSeq(s, 1, i - 1) \o rep \o SubSeq(s, i + Len(pat), Len(s))

RECURSIVE NatToStr(_)
NatToStr(n) ==
  IF n < Len(DigitChars) THEN << DigitChars[n + 1] >>
  ELSE NatToStr(n \div Len(DigitChars)) \o << DigitChars[(n % Len(DigitChars)) + 1] >>

(***************************************************************************)
(* Values and entries: Entry = { [key: string]: string|number|null|undefined } *)
(***************************************************************************)
Str(s) == [ t |-> "string", s |-> s, n |-> 0 ]
Num(n) == [ t |-> "number", s |-> << >>, n |-> n ]
Null == [ t |-> "null", s |-> << >>, n |-> 0 ]
Undefined == [ t |-> "undefined", s |-> << >>, n |-> 0 ]

IsNullish(v) == v.t \in { "null", "undefined" }

\* String(value)
String(v) ==
  CASE v.t = "string" -> v.s
    [] v.t = "number" -> NatToStr(v.n)
    [] v.t = "null" -> << "n","u","l","l" >>
    [] OTHER -> << "u","n","d","e","f","i","n","e","d" >>

\* normalize: null/undefined -> '', otherwise String(value).trim().toLowerCase()
normalize(v) == IF IsNullish(v) THEN << >> ELSE toLowerCase(trim(String(v)))

\* An entry is the sequence of its own enumerable [key, value] pairs, in
\* Object.keys order.
KV(k, v) == [ k |-> k, v |-> v ]

\* entry[key]
Get(entry, key) ==
  IF \E i \in DOMAIN entry : entry[i].k = key
  THEN entry[CHOOSE i \in DOMAIN entry : entry[i].k = key].v
  ELSE Undefined

MinOf(S) == CHOOSE i \in S : \A j \in S : i <= j

(***************************************************************************)
(* The accepted spellings of each logical field                            *)
(***************************************************************************)
\* getMatchStatus, route.ts:297
Payload_EntrySsidNames ==
  << <<"S","S","I","D">>,
     <<"s","s","i","d">>,
     <<"S","s","i","d">>,
     <<"S","o","c","i","a","l","S","e","c","u","r","i","t","y">>,
     <<"S","S","N">>,
     <<"S","o","c","i","a","l"," ","S","e","c","u","r","i","t","y"," ","N","u","m","b","e","r">>,
     <<"S","o","c","i","a","l"," ","S","e","c","u","r","i","t","y"," ","I","D">>,
     <<"_","_","E","M","P","T","Y","_","1">>,
     <<"_","_","E","M","P","T","Y","_","2">>,
     <<"_","_","E","M","P","T","Y","_","3">>,
     <<"_","_","E","M","P","T","Y","_","4">>,
     <<"_","_","E","M","P","T","Y","_","5">>,
     <<"_","_","E","M","P","T","Y","_","6">> >>

\* getMatchStatus, route.ts:303
Payload_EntryNinNames ==
  << <<"N","I","N">>,
     <<"n","i","n">>,
     <<"N","i","n">>,
     <<"N","a","t","i","o","n","a","l","I","D">>,
     <<"N","a","t","i","o","n","a","l"," ","I","D">>,
     <<"N","a","t","i","o","n","a","l"," ","I","d","e","n","t","i","f","i","c","a","t","i","o","n"," ","N","u","m","b","e","r">>,
     <<"_","_","E","M","P","T","Y","_","1">>,
     <<"_","_","E","M","P","T","Y","_","2">>,
     <<"_","_","E","M","P","T","Y","_","3">>,
     <<"_","_","E","M","P","T","Y","_","4">>,
     <<"_","_","E","M","P","T","Y","_","5">>,
     <<"_","_","E","M","P","T","Y","_","6">> >>

\* extractFullName (the same list in both handlers)
FullNameNames ==
  << <<"F","U","L","L"," ","N","A","M","E">>,
     <<"F","u","l","l"," ","N","a","m","e">>,
     <<"f","u","l","l"," ","n","a","m","e">>,
     <<"n","a","m","e">>,
     <<"N","a","m","e">>,
     <<"F","U","L","L","N","A","M","E">>,
     <<"F","u","l","l","N","a","m","e">>,
     <<"f","u","l","l","n","a","m","e">>,
     <<"B","e","n","e","f","i","c","i","a","r","y"," ","N","a","m","e">>,
     <<"C","u","s","t","o","m","e","r"," ","N","a","m","e">>,
     <<"P","e","r","s","o","n"," ","N","a","m","e">> >>

\* extractFullName
FirstNameNames ==
  << <<"f","i","r","s","t","n","a","m","e">>,
     <<"f","i","r","s","t","_","n","a","m","e">>,
     <<"f","i","r","s","t">> >>

\* extractFullName
MiddleNameNames ==
  << <<"m","i","d","d","l","e","n","a","m","e">>,
     <<"m","i","d","d","l","e","_","n","a","m","e">>,
     <<"m","i","d","d","l","e">> >>

\* extractFullName
LastNameNames ==
  << <<"l","a","s","t","n","a","m","e">>,
     <<"l","a","s","t","_","n","a","m","e">>,
     <<"l","a","s","t">>,
     <<"s","u","r","n","a","m","e">> >>

\* the SSID names of the source indexer (both handlers) and of the URL-based getMatchStatus
IndexSsidNames ==
  << <<"S","S","I","D">>,
     <<"s","s","i","d">>,
     <<"S","s","i","d">>,
     <<"S","o","c","i","a","l","S","e","c","u","r","i","t","y">>,
     <<"S","S","N">> >>

\* the NIN names of the source indexer (both handlers) and of the URL-based getMatchStatus
IndexNinNames ==
  << <<"N","I","N">>,
     <<"n","i","n">>,
     <<"N","i","n">>,
     <<"N","a","t","i","o","n","a","l","I","D">> >>

\* payload getMatchStatus: scoring, comparison and safeStringExtract
ShortSsidNames ==
  << <<"S","S","I","D">>,
     <<"s","s","i","d">>,
     <<"S","s","i","d">> >>

\* payload getMatchStatus: scoring, comparison and safeStringExtract
ShortNinNames ==
  << <<"N","I","N">>,
     <<"n","i","n">>,
     <<"N","i","n">> >>

\* URL-based getMatchStatus: the scoring loop
Url_ScoreSsidNames ==
  << <<"S","S","I","D">>,
     <<"s","s","i","d">> >>

\* URL-based getMatchStatus: the scoring loop
Url_ScoreNinNames ==
  << <<"N","I","N">>,
     <<"n","i","n">> >>


(***************************************************************************)
(* Field resolution of the URL-based validate handler                      *)
(***************************************************************************)
\* normalizeKey inside extractField: lower-case, strip non-alphanumerics.
Url_normalizeKey(str) == StripNonAlnum(toLowerCase(str))

\* The first key, in key order, whose normalized form is an accepted name and
\* whose value is neither null nor undefined decides; its normalized value is
\* returned even when that is the empty string.
Url_extractField(entry, possibleFieldNames) ==
  LET possibleNormalizedNames ==
        { Url_normalizeKey(f) : f \in Range(possibleFieldNames) }
      hits == { i \in DOMAIN entry :
                  /\ Url_normalizeKey(entry[i].k) \in possibleNormalizedNames
                  /\ ~IsNullish(entry[i].v) }
  IN IF hits = {} THEN << >> ELSE normalize(entry[MinOf(hits)].v)

\* parts.join(' ')
RECURSIVE JoinSpace(_)
JoinSpace(parts) ==
  IF parts = << >> THEN << >>
  ELSE IF Len(parts) = 1 THEN parts[1]
  ELSE parts[1] \o << " " >> \o JoinSpace(Tail(parts))

\* [first, middle, last] kept whole, the empty parts included.
NonEmptyParts_all(parts) == parts

\* [first, middle, last].filter(Boolean)
NonEmptyParts(parts) == SelectSeq(parts, LAMBDA p : p # << >>)

Url_extractFullName(entry) ==
  LET singleFullName == Url_extractField(entry, FullNameNames)
      nameParts == NonEmptyParts(<< Url_extractField(entry, FirstNameNames),
                                    Url_extractField(entry, MiddleNameNames),
                                    Url_extractField(entry, LastNameNames) >>)
  IN IF singleFullName # << >> THEN singleFullName
     ELSE IF Len(nameParts) > 0 THEN normalize(Str(JoinSpace(nameParts)))
     ELSE << >>

(***************************************************************************)
(* Field resolution of lib/dataSource.ts                                   *)
(***************************************************************************)
\* As the URL-based handler's, but the value is only trimmed:
\* 'return String(value).trim()'.
Lib_extractField(entry, possibleFieldNames) ==
  LET possibleNormalizedNames ==
        { Url_normalizeKey(f) : f \in Range(possibleFieldNames) }
      hits == { i \in DOMAIN entry :
                  /\ Url_normalizeKey(entry[i].k) \in possibleNormalizedNames
                  /\ ~IsNullish(entry[i].v) }
  IN IF hits = {} THEN << >> ELSE trim(String(entry[MinOf(hits)].v))

\* The list of extractFullName in lib/dataSource.ts: no 'Customer Name', no
\* 'Person Name'.
Lib_FullNameNames == SubSeq(FullNameNames, 1, Len(FullNameNames) - 2)

Lib_extractFullName(entry) ==
  LET singleFullName == Lib_extractField(entry, Lib_FullNameNames)
      nameParts == NonEmptyParts(<< Lib_extractField(entry, FirstNameNames),
                                    Lib_extractField(entry, MiddleNameNames),
                                    Lib_extractField(entry, LastNameNames) >>)
  IN IF singleFullName # << >> THEN singleFullName
     ELSE IF Len(nameParts) > 0 THEN JoinSpace(nameParts)
     ELSE << >>

(***************************************************************************)
(* Field resolution of the payload-based validate handler                  *)
(***************************************************************************)
\* The synonym folds of normalizeKey, in the order of the chain: each is a
\* String.replace(pattern, replacement) of the first occurrence.
SynonymFolds ==
  << << <<"f","u","l","l","n","a","m","e">>, <<"n","a","m","e">> >>,
     << <<"b","e","n","e","f","i","c","i","a","r","y","n","a","m","e">>, <<"n","a","m","e">> >>,
     << <<"c","u","s","t","o","m","e","r","n","a","m","e">>, <<"n","a","m","e">> >>,
     << <<"p","e","r","s","o","n","n","a","m","e">>, <<"n","a","m","e">> >>,
     << <<"n","i","n">>, <<"n","a","t","i","o","n","a","l","i","d">> >>,
     << <<"s","s","i","d">>, <<"s","o","c","i","a","l","s","e","c","u","r","i","t","y">> >>,
     << <<"s","o","c","i","a","l","s","e","c","u","r","i","t","y","i","d">>,
        <<"s","o","c","i","a","l","s","e","c","u","r","i","t","y">> >>,
     << <<"s","s","n">>, <<"s","o","c","i","a","l","s","e","c","u","r","i","t","y">> >> >>

\* The chain applied from its k-th fold on.
RECURSIVE FoldFrom(_, _)
FoldFrom(s, k) ==
  IF k > Len(SynonymFolds) THEN s
  ELSE FoldFrom(ReplaceFirst(s, SynonymFolds[k][1], SynonymFolds[k][2]), k + 1)

\* normalizeKey inside extractField: lower-case, strip, then the synonym folds.
Payload_normalizeKey(str) ==
  FoldFrom(StripUnderscoreEnds(StripNonAlnum(toLowerCase(str))), 1)

\* The optional headerRow parameter.
NoHeader == [ present |-> FALSE, e |-> << >> ]
Header(e) == [ present |-> TRUE, e |-> e ]

\* value !== null && value !== undefined && String(value).trim() non-empty
HasText(v) == ~IsNullish(v) /\ trim(String(v)) # << >>

\* The result of a resolution: found or not, and the value returned.
Found(s) == [ found |-> TRUE, s |-> s ]
NotFound == [ found |-> FALSE, s |-> << >> ]

\* 'const stringValue = String(value).trim(); if (stringValue) return
\* normalize(stringValue)' tried on each value in turn: the first value that
\* is neither null nor undefined and has text is returned, normalized.
FirstText(values) ==
  LET hits == { f \in DOMAIN values : HasText(values[f]) }
  IN IF hits = {} THEN NotFound
     ELSE Found(normalize(Str(trim(String(values[MinOf(hits)])))))

\* 'if (normalizedValue) fieldMap[normalizedValue] = key', read back as
\* fieldMap[normalizedField]: does the header cell v label the field?
SameLabel(normalizedValue, normalizedField) ==
  normalizedValue # << >> /\ normalizedValue = normalizedField

Payload_labels(v, normalizedField) ==
  ~IsNullish(v) /\ SameLabel(Payload_normalizeKey(String(v)), normalizedField)

\* The greatest member of a set of positions, 0 if there is none.
MaxOrZero(S) == IF S = {} THEN 0 ELSE CHOOSE i \in S : \A j \in S : j <= i

\* fieldMap of extractField: the position in the header row of the key that
\* fieldMap holds for the normalized field; a later label overwrites an
\* earlier one, and 0 stands for a missing label.
Payload_fieldMapIndex(headerRow, normalizedField) ==
  MaxOrZero({ i \in DOMAIN headerRow.e : Payload_labels(headerRow.e[i].v, normalizedField) })

\* entry[fieldMap[normalizedField]], with m the position of the key; a missing
\* label, or one whose key is the empty string, is falsy and reads nothing.
Payload_headerCell(entry, headerRow, m) ==
  IF m = 0 \/ headerRow.e[m].k = << >> THEN Undefined
  ELSE Get(entry, headerRow.e[m].k)

\* First loop of extractField (only with a header row): for each accepted
\* name in order, the cell of the entry under the key the header row labels so.
Payload_headerCells(entry, possibleFieldNames, headerRow) ==
  IF ~headerRow.present THEN << >>
  ELSE [ f \in DOMAIN possibleFieldNames |->
           Payload_headerCell(entry, headerRow,
             Payload_fieldMapIndex(headerRow, Payload_normalizeKey(possibleFieldNames[f]))) ]

\* Second loop of extractField, for one accepted name: the value under the
\* key spelled exactly so, then the values of the keys with the same
\* normalized form, in key order.
Payload_keyCells(entry, field) ==
  << Get(entry, field) >>
  \o [ i \in DOMAIN entry |->
         IF Payload_normalizeKey(entry[i].k) = Payload_normalizeKey(field)
         THEN entry[i].v ELSE Undefined ]

\* The second loop over the accepted names from the f-th on.
RECURSIVE Payload_keyCellsFrom(_, _, _)
Payload_keyCellsFrom(entry, possibleFieldNames, f) ==
  IF f > Len(possibleFieldNames) THEN << >>
  ELSE Payload_keyCells(entry, possibleFieldNames[f])
       \o Payload_keyCellsFrom(entry, possibleFieldNames, f + 1)

\* extractField: the first value with text, in the order the two loops try
\* them, normalized; '' when there is none.
Payload_extractField(entry, possibleFieldNames, headerRow) ==
  FirstText(Payload_headerCells(entry, possibleFieldNames, headerRow)
            \o Payload_keyCellsFrom(entry, possibleFieldNames, 1)).s

Payload_extractFullName(entry, headerRow) ==
  LET singleFullName == Payload_extractField(entry, FullNameNames, headerRow)
      nameParts ==
        NonEmptyParts(<< Payload_extractField(entry, FirstNameNames, headerRow),
                         Payload_extractField(entry, MiddleNameNames, headerRow),
                         Payload_extractField(entry, LastNameNames, headerRow) >>)
  IN IF singleFullName # << >> THEN singleFullName
     ELSE IF Len(nameParts) > 0 THEN normalize(Str(JoinSpace(nameParts)))
     ELSE << >>

\* safeStringExtract: the name goes through extractFullName; any other field
\* is the trimmed, not lower-cased, text of the first exactly-spelled key.
safeStringExtract(entry, fieldNames, headerRow) ==
  LET isName == \E f \in DOMAIN fieldNames :
                   IndexOf(toLowerCase(fieldNames[f]), <<"n","a","m","e">>) # 0
      hits == { f \in DOMAIN fieldNames : HasText(Get(entry, fieldNames[f])) }
  IN IF isName THEN Payload_extractFullName(entry, headerRow)
     ELSE IF hits = {} THEN << >>
     ELSE trim(String(Get(entry, fieldNames[MinOf(hits)])))

(***************************************************************************)
(* Concrete entries                                                        *)
(***************************************************************************)
\* The entries of the model, by name; a name stands for the object in a dataset.
EntryOf(id) ==
    \* source: SSID, NIN and name
  CASE id = "S1" ->
      << KV(<<"S","S","I","D">>, Str(<<"A","1">>)),
         KV(<<"N","I","N">>, Str(<<"N","1">>)),
         KV(<<"F","U","L","L"," ","N","A","M","E">>, Str(<<"A","l"," ","B","o">>)) >>
    \* source: the SSID of S1 up to case and blanks, another NIN and name
    [] id = "S2" ->
      << KV(<<"S","S","I","D">>, Str(<<" ","a","1">>)),
         KV(<<"N","I","N">>, Str(<<"N","2">>)),
         KV(<<"N","a","m","e">>, Str(<<"C","y"," ","D","i">>)) >>
    \* source: the SSID in a column named SSN, no NIN
    [] id = "S3" ->
      << KV(<<"S","S","N">>, Str(<<"A","2">>)),
         KV(<<"N","a","m","e">>, Str(<<"A","l"," ","B","o">>)) >>
    \* source: the NIN of S1, no name
    [] id = "S4" ->
      << KV(<<"S","S","I","D">>, Str(<<"A","3">>)),
         KV(<<"N","I","N">>, Str(<<"N","1">>)),
         KV(<<"N","a","m","e">>, Null) >>
    \* a row of numbers only, no name
    [] id = "S5" ->
      << KV(<<"S","S","I","D">>, Num(7)),
         KV(<<"N","I","N">>, Num(8)) >>
    \* candidate: SSID only
    [] id = "E1" ->
      << KV(<<"s","s","i","d">>, Str(<<"a","1">>)),
         KV(<<"F","u","l","l"," ","N","a","m","e">>, Str(<<"A","L"," ","B","O">>)) >>
    \* candidate: both identifiers, split name
    [] id = "E2" ->
      << KV(<<"S","S","N">>, Str(<<"A","2">>)),
         KV(<<"N","I","N">>, Str(<<" ","n","1">>)),
         KV(<<"f","i","r","s","t","n","a","m","e">>, Str(<<"A","l">>)),
         KV(<<"l","a","s","t","n","a","m","e">>, Str(<<"B","o">>)) >>
    \* candidate: the SSID of S1 and S2 with a NIN no source record has
    [] id = "E3" ->
      << KV(<<"S","S","I","D">>, Str(<<"A","1">>)),
         KV(<<"N","I","N">>, Str(<<"Z","Z">>)),
         KV(<<"N","a","m","e">>, Str(<<"C","y"," ","D","i">>)) >>
    \* candidate: no name
    [] id = "E4" ->
      << KV(<<"S","S","I","D">>, Str(<<"A","1">>)) >>
    \* candidate: no identifier
    [] id = "E5" ->
      << KV(<<"N","a","m","e">>, Str(<<"A","l"," ","B","o">>)) >>
    \* candidate: neither name nor identifier
    [] id = "E6" ->
      << KV(<<"N","I","N">>, Null) >>
    \* a row of column labels (raw grid sent as rows)
    [] id = "H1" ->
      << KV(<<"c","1">>, Str(<<"S","S","I","D">>)),
         KV(<<"c","2">>, Str(<<"N","I","N">>)),
         KV(<<"c","3">>, Str(<<"N","a","m","e">>)) >>
    \* a row of column labels without one for the name
    [] id = "H2" ->
      << KV(<<"c","1">>, Str(<<"S","S","I","D">>)),
         KV(<<"c","2">>, Str(<<"N","I","N">>)) >>
    \* a data row keyed like H1
    [] id = "D1" ->
      << KV(<<"c","1">>, Str(<<"A","1">>)),
         KV(<<"c","2">>, Str(<<"N","1">>)),
         KV(<<"c","3">>, Str(<<"A","l"," ","B","o">>)) >>
    \* source: S1 with the case and the surrounding blanks of its values changed
    [] id = "S6" ->
      << KV(<<"S","S","I","D">>, Str(<<" ","a","1">>)),
         KV(<<"N","I","N">>, Str(<<"n","1"," ">>)),
         KV(<<"F","U","L","L"," ","N","A","M","E">>, Str(<<" ","A","L"," ","B","O">>)) >>
    \* candidate: the identifiers and the name of S1
    [] id = "E7" ->
      << KV(<<"S","S","I","D">>, Str(<<"A","1">>)),
         KV(<<"N","I","N">>, Str(<<"N","1">>)),
         KV(<<"N","a","m","e">>, Str(<<"A","l"," ","B","o">>)) >>
    \* candidate: E7 with the case and the surrounding blanks of its values changed
    [] id = "E8" ->
      << KV(<<"S","S","I","D">>, Str(<<"a","1"," ">>)),
         KV(<<"N","I","N">>, Str(<<" ","n","1">>)),
         KV(<<"N","a","m","e">>, Str(<<"a","l"," ","b","o"," ">>)) >>
    \* a record whose values are one character long
    [] id = "X1" ->
      << KV(<<"S","S","I","D">>, Str(<<"5">>)),
         KV(<<"N","I","N">>, Str(<<"6">>)),
         KV(<<"N","a","m","e">>, Str(<<"X">>)) >>
    \* X1 with a blank after its name
    [] id = "X2" ->
      << KV(<<"S","S","I","D">>, Str(<<"5">>)),
         KV(<<"N","I","N">>, Str(<<"6">>)),
         KV(<<"N","a","m","e">>, Str(<<"X"," ">>)) >>
    \* another record whose values are one character long
    [] id = "X3" ->
      << KV(<<"S","S","I","D">>, Str(<<"3">>)),
         KV(<<"N","I","N">>, Str(<<"4">>)),
         KV(<<"N","a","m","e">>, Str(<<"Y">>)) >>
    \* candidate: two columns that both name the full name
    [] id = "P1" ->
      << KV(<<"S","S","I","D">>, Str(<<"A","1">>)),
         KV(<<"N","a","m","e">>, Str(<<"A","l"," ","B","o">>)),
         KV(<<"F","u","l","l"," ","N","a","m","e">>, Str(<<"C","y"," ","D","i">>)) >>
    \* P1 with its last two columns in the other order
    [] id = "P2" ->
      << KV(<<"S","S","I","D">>, Str(<<"A","1">>)),
         KV(<<"F","u","l","l"," ","N","a","m","e">>, Str(<<"C","y"," ","D","i">>)),
         KV(<<"N","a","m","e">>, Str(<<"A","l"," ","B","o">>)) >>
    \* source: the SSID in a column named Social Security ID
    [] id = "S7" ->
      << KV(<<"S","o","c","i","a","l"," ","S","e","c","u","r","i","t","y"," ","I","D">>, Str(<<"A","1">>)),
         KV(<<"N","a","m","e">>, Str(<<"A","l"," ","B","o">>)) >>
    \* candidate: the SSID in a column named ssn
    [] id = "E9" ->
      << KV(<<"s","s","n">>, Str(<<"a","1">>)),
         KV(<<"N","a","m","e">>, Str(<<"A","l"," ","B","o">>)) >>
    \* a full name and name parts that differ from it
    [] id = "N1" ->
      << KV(<<"S","S","I","D">>, Str(<<"A","1">>)),
         KV(<<"N","I","N">>, Str(<<"N","1">>)),
         KV(<<"N","a","m","e">>, Str(<<"A","l"," ","B","o">>)),
         KV(<<"f","i","r","s","t","n","a","m","e">>, Str(<<"C","y">>)),
         KV(<<"l","a","s","t","n","a","m","e">>, Str(<<"D","i">>)) >>
    \* a blank full name, an empty middle name
    [] id = "N2" ->
      << KV(<<"S","S","I","D">>, Str(<<"A","1">>)),
         KV(<<"N","I","N">>, Str(<<"N","1">>)),
         KV(<<"N","a","m","e">>, Str(<<" ">>)),
         KV(<<"f","i","r","s","t","n","a","m","e">>, Str(<<"A","l">>)),
         KV(<<"m","i","d","d","l","e","n","a","m","e">>, Str(<<>>)),
         KV(<<"l","a","s","t","n","a","m","e">>, Str(<<"B","o">>)) >>
    \* no full name column, three parts with blanks around them
    [] id = "N3" ->
      << KV(<<"S","S","I","D">>, Str(<<"A","1">>)),
         KV(<<"N","I","N">>, Str(<<"N","1">>)),
         KV(<<"f","i","r","s","t","n","a","m","e">>, Str(<<" ","A","l">>)),
         KV(<<"m","i","d","d","l","e","n","a","m","e">>, Str(<<"C","y"," ">>)),
         KV(<<"l","a","s","t","n","a","m","e">>, Str(<<"B","o">>)) >>
    \* no value in any of the four name columns
    [] id = "N4" ->
      << KV(<<"S","S","I","D">>, Str(<<"A","1">>)),
         KV(<<"N","I","N">>, Str(<<"N","1">>)),
         KV(<<"N","a","m","e">>, Str(<<>>)),
         KV(<<"f","i","r","s","t","n","a","m","e">>, Str(<<" ">>)),
         KV(<<"m","i","d","d","l","e","n","a","m","e">>, Null),
         KV(<<"l","a","s","t","n","a","m","e">>, Null) >>
    \* a candidate that already has a column named as an output key
    [] id = "M1" ->
      << KV(<<"S","S","I","D">>, Str(<<"A","1">>)),
         KV(<<"M","a","t","c","h"," ","S","t","a","t","u","s">>, Str(<<"I","n","v","a","l","i","d">>)),
         KV(<<"N","a","m","e">>, Str(<<"A","l"," ","B","o">>)) >>
    \* candidate: a NIN and a name, no SSID
    [] id = "E10" ->
      << KV(<<"N","I","N">>, Str(<<"N","1">>)),
         KV(<<"N","a","m","e">>, Str(<<"A","l"," ","B","o">>)) >>
    \* candidate: a null name column before a second column that names the full name
    [] id = "K1" ->
      << KV(<<"S","S","I","D">>, Str(<<"A","1">>)),
         KV(<<"N","a","m","e">>, Null),
         KV(<<"F","u","l","l"," ","N","a","m","e">>, Str(<<"A","l"," ","B","o">>)) >>
    \* candidate: two SSID columns, the one spelled as the first accepted name second
    [] id = "K2" ->
      << KV(<<"s","s","i","d">>, Str(<<"b","1">>)),
         KV(<<"S","S","I","D">>, Str(<<"A","1">>)),
         KV(<<"N","a","m","e">>, Str(<<"A","l"," ","B","o">>)) >>

(***************************************************************************)
(* The datasets of a request: rows drawn from a pool of concrete entries,  *)
(* named by identifiers in the state                                       *)
(***************************************************************************)
Url_SourcePool == { "S1", "S2", "S3", "S4" }
Url_EntryPool == { "E1", "E2", "E3", "E4", "E5", "E6" }
Payload_SourcePool == { "S1", "S2", "S5" }
Payload_EntryPool == { "H1", "H2", "D1", "E5" }

\* Further datasets, in families of a few entries each: entries that differ
\* in the case and the surrounding blanks of their values only, rows without
\* a header-like value, entries that differ in the order of their columns,
\* columns named by a synonym, names given whole, in parts or not at all,
\* a column named as an output key, identifiers that one side lacks, and a
\* source record without a name. A payload family fixes the first row of
\* each array.
Probe_UrlFamilies ==
  { [ source |-> { "S1", "S6" }, entries |-> { "E7", "E8" } ],
    [ source |-> { "S1", "S7" }, entries |-> { "P1", "P2", "E9" } ],
    [ source |-> { "S1", "N3" }, entries |-> { "N1", "N2", "N3", "N4" } ],
    [ source |-> { "S1" }, entries |-> { "M1", "E7", "K1", "K2" } ],
    [ source |-> { "S3", "S4" }, entries |-> { "E2", "E10" } ] }

Probe_PayloadFamilies ==
  { [ first |-> "S1", source |-> { "S1", "S6" }, entries |-> { "E7", "E8" } ],
    [ first |-> "S5", source |-> { "X1", "X2", "X3" }, entries |-> { "X1" } ],
    [ first |-> "S1", source |-> { "S1", "S7" }, entries |-> { "P1", "P2", "E9" } ],
    [ first |-> "S1", source |-> { "S1", "N3" }, entries |-> { "N1", "N2", "N3", "N4" } ],
    [ first |-> "S1", source |-> { "S1" }, entries |-> { "M1", "E7", "K1", "K2" } ],
    [ first |-> "S1", source |-> { "S1", "S7" }, entries |-> { "E7", "E10" } ],
    [ first |-> "S1", source |-> { "S3", "S4" }, entries |-> { "E2", "E10" } ] }

Url_Ids ==
  Url_SourcePool \cup Url_EntryPool
    \cup UNION { f.source \cup f.entries : f \in Probe_UrlFamilies }
Payload_Ids ==
  Payload_SourcePool \cup Payload_EntryPool
    \cup UNION { { f.first } \cup f.source \cup f.entries : f \in Probe_PayloadFamilies }

(***************************************************************************)
(* Header-row detection of the payload-based handler                       *)
(***************************************************************************)
\* The values the six headerPatterns accept whole (anchored alternations);
\* 'no\.?' also accepts "no." and 'full.?name' any one character in between.
HeaderWords ==
  { <<"s","s","i","d">>, <<"n","i","n">>, <<"i","d">>, <<"n","u","m","b","e","r">>,
    <<"n","o">>, <<"n","o",".">>, <<"r","e","f">>,
    <<"r","e","f","e","r","e","n","c","e">>,
    <<"n","a","m","e">>, <<"f","u","l","l","n","a","m","e">>,
    <<"b","e","n","e","f","i","c","i","a","r","y">>, <<"c","u","s","t","o","m","e","r">>,
    <<"p","e","r","s","o","n">>,
    <<"s","t","a","t","u","s">>, <<"s","t","a","t","e">>,
    <<"c","o","n","d","i","t","i","o","n">>, <<"r","e","s","u","l","t">>,
    <<"b","a","n","k">>, <<"a","c","c","o","u","n","t">>, <<"a","c","c","t">>,
    <<"i","n","s","t","i","t","u","t","i","o","n">>,
    <<"d","a","t","e">>, <<"t","i","m","e">>, <<"c","r","e","a","t","e","d">>,
    <<"u","p","d","a","t","e","d">>, <<"m","o","d","i","f","i","e","d">>,
    <<"c","o","l","u","m","n">>, <<"f","i","e","l","d">>, <<"d","a","t","a">>,
    <<"i","n","f","o">>, <<"d","e","t","a","i","l","s">> }

MatchesHeaderPattern(value) ==
  \/ value \in HeaderWords
  \/ /\ Len(value) = Len(<<"f","u","l","l","?","n","a","m","e">>)
     /\ SubSeq(value, 1, 4) = <<"f","u","l","l">>
     /\ SubSeq(value, 6, 9) = <<"n","a","m","e">>

\* /^\d+$/.test(value)
AllDigits(value) == value # << >> /\ \A i \in DOMAIN value : value[i] \in Range(DigitChars)

\* isNaN(Number(value)) for a string over letters, digits and blanks that
\* spells no exponent, hexadecimal, octal or binary literal and no "Infinity":
\* Number trims, reads '' as 0 and a run of digits as that number.
IsNaNNumber(value) == trim(value) # << >> /\ ~AllDigits(trim(value))

isLikelyHeaderRow(row) ==
  LET values == [ i \in DOMAIN row |-> toLowerCase(String(row[i].v)) ]
      hasHeaderPattern == \E i \in DOMAIN values : MatchesHeaderPattern(values[i])
      hasTextContent ==
        \E i \in DOMAIN values :
           /\ Len(values[i]) > 0
           /\ IsNaNNumber(values[i])
           /\ ~AllDigits(values[i])
           /\ values[i] # <<"n","u","l","l">>
           /\ values[i] # <<"u","n","d","e","f","i","n","e","d">>
      hasReasonableLength ==
        \E i \in DOMAIN values : Len(values[i]) >= 2 /\ Len(values[i]) <= 50
  IN hasHeaderPattern \/ (hasTextContent /\ hasReasonableLength)

LikelyHeader == [ id \in Payload_Ids |-> isLikelyHeaderRow(EntryOf(id)) ]

\* findHeaderRow over rows named by identifier, as a zero-based index: row 0 if it looks like a header, else
\* the first of the first five rows that does, else 0 (the last heuristic
\* returns 0 on both of its branches).
findHeaderRow(rows) ==
  LET likely == { i \in 1 .. (IF Len(rows) < 5 THEN Len(rows) ELSE 5) :
                    LikelyHeader[rows[i]] }
  IN IF Len(rows) = 0 \/ likely = {} THEN 0 ELSE MinOf(likely) - 1

(***************************************************************************)
(* The fields of every pool entry, resolved once: each table entry is the  *)
(* resolver applied to the concrete entry, and the handlers below read the *)
(* tables by entry identifier                                              *)
(***************************************************************************)
\* The header-row argument by identifier; "none" is the omitted argument.
HeaderOf(h) == IF h = "none" THEN NoHeader ELSE Header(EntryOf(h))

Url_fields ==
  [ id \in Url_Ids |->
      [ ssid |-> Url_extractField(EntryOf(id), IndexSsidNames),
        nin |-> Url_extractField(EntryOf(id), IndexNinNames),
        name |-> Url_extractFullName(EntryOf(id)),
        scoreSsid |-> Url_extractField(EntryOf(id), Url_ScoreSsidNames),
        scoreNin |-> Url_extractField(EntryOf(id), Url_ScoreNinNames) ] ]

\* The full name of every entry as lib/dataSource.ts resolves it.
Lib_names == [ id \in Url_Ids \cup Payload_Ids |-> Lib_extractFullName(EntryOf(id)) ]

\* The rows that can meet the header row h in one array: the rows of the
\* pools h belongs to.
Payload_RowsUnder(h) ==
  (IF h \in Payload_SourcePool \cup Payload_EntryPool
   THEN Payload_SourcePool \cup Payload_EntryPool ELSE { })
    \cup UNION { { f.first } \cup f.source \cup f.entries :
                   f \in { g \in Probe_PayloadFamilies :
                             h \in { g.first } \cup g.source \cup g.entries } }

\* The fields of each row under each header row detection can pick in some
\* array: any row of the main pools; the first row of a family when it has a
\* value that looks like a header, any row of the family otherwise; none.
Payload_fields ==
  [ h \in Payload_SourcePool \cup Payload_EntryPool
           \cup UNION { IF LikelyHeader[f.first] THEN { f.first }
                        ELSE { f.first } \cup f.source \cup f.entries :
                          f \in Probe_PayloadFamilies }
           \cup { "none" } |->
      [ id \in Payload_RowsUnder(h) |->
          [ entrySsid |-> Payload_extractField(EntryOf(id), Payload_EntrySsidNames, HeaderOf(h)),
            entryNin |-> Payload_extractField(EntryOf(id), Payload_EntryNinNames, HeaderOf(h)),
            name |-> Payload_extractFullName(EntryOf(id), HeaderOf(h)),
            indexSsid |-> Payload_extractField(EntryOf(id), IndexSsidNames, HeaderOf(h)),
            indexNin |-> Payload_extractField(EntryOf(id), IndexNinNames, HeaderOf(h)),
            shortSsid |-> Payload_extractField(EntryOf(id), ShortSsidNames, HeaderOf(h)),
            shortNin |-> Payload_extractField(EntryOf(id), ShortNinNames, HeaderOf(h)),
            safeSsid |-> safeStringExtract(EntryOf(id), ShortSsidNames, NoHeader),
            safeNin |-> safeStringExtract(EntryOf(id), ShortNinNames, NoHeader) ] ] ]

\* The rows of a dataset as the resolvers of each handler read them.
RECURSIVE Url_rows(_)
Url_rows(ids) ==
  IF ids = << >> THEN << >>
  ELSE << Url_fields[Head(ids)] >> \o Url_rows(Tail(ids))

RECURSIVE Payload_rows(_, _)
Payload_rows(h, ids) ==
  IF ids = << >> THEN << >>
  ELSE << Payload_fields[h][Head(ids)] >> \o Payload_rows(h, Tail(ids))


(***************************************************************************)
(* The fuzzy similarity provider (fuzzball token_set_ratio, a dependency)  *)
(***************************************************************************)
\* An outcome of one call: a score, or an exception.
Score(v) == [ thrown |-> FALSE, v |-> v ]
Thrown == [ thrown |-> TRUE, v |-> 0 ]

\* What the provider may answer for two different strings in one run.
SimDiffOutcomes == { Score(89), Score(90), Thrown }

\* token_set_ratio is a function of its two arguments: equal strings score
\* 100, and d is the run's outcome for two different strings.
token_set_ratio(a, b, d) == IF a = b THEN Score(100) ELSE d

SIMILARITY_THRESHOLD == 90

\* The threshold compared strictly.
NameMatches_strict(nameSimilarity) == nameSimilarity > SIMILARITY_THRESHOLD

\* nameMatches = nameSimilarity >= SIMILARITY_THRESHOLD
NameMatches(nameSimilarity) == nameSimilarity >= SIMILARITY_THRESHOLD

(***************************************************************************)
(* ValidationResult                                                        *)
(***************************************************************************)
\* The reason text is kept as its kind, the list of issues it enumerates, the
\* similarity percentage it prints (-1: none) and the fault message it carries.
FaultMessage == "token_set_ratio failed"

Invalid(kind) ==
  [ thrown |-> FALSE, status |-> "Invalid", kind |-> kind, issues |-> << >>,
    sim |-> -1, msg |-> "", hasMatch |-> FALSE,
    matchedName |-> << >>, matchedSSID |-> << >>, matchedNIN |-> << >> ]

SystemError(message) == [ Invalid("System error") EXCEPT !.msg = message ]

\* An exception leaving the try block (or, without a catch, the function).
Raise(message) == [ Invalid("thrown") EXCEPT !.thrown = TRUE, !.msg = message ]

Matched(status, kind, issues, sim, name, ssid, nin) ==
  [ thrown |-> FALSE, status |-> status, kind |-> kind, issues |-> issues,
    sim |-> sim, msg |-> "", hasMatch |-> TRUE,
    matchedName |-> name, matchedSSID |-> ssid, matchedNIN |-> nin ]

(***************************************************************************)
(* Candidate gathering and best-match scoring (the same in both handlers)  *)
(***************************************************************************)
\* Gathering that consults the SSID index only.
Gather_ssidOnly(entrySSID, entryNIN, bySSID, byNIN) ==
  IF entrySSID # << >> /\ entrySSID \in DOMAIN bySSID
  THEN << bySSID[entrySSID] >> ELSE << >>

\* Gathering without the Set 'foundMatches': both hits are pushed.
Gather_bothPushed(entrySSID, entryNIN, bySSID, byNIN) ==
  (IF entrySSID # << >> /\ entrySSID \in DOMAIN bySSID
   THEN << bySSID[entrySSID] >> ELSE << >>)
  \o (IF entryNIN # << >> /\ entryNIN \in DOMAIN byNIN
      THEN << byNIN[entryNIN] >> ELSE << >>)

\* potentialMatches: positions of source records, the SSID-index hit first,
\* then the NIN-index hit unless it is the same record (the Set 'foundMatches').
Gather(entrySSID, entryNIN, bySSID, byNIN) ==
  LET viaSsid == IF entrySSID # << >> /\ entrySSID \in DOMAIN bySSID
                 THEN << bySSID[entrySSID] >> ELSE << >>
      viaNin == IF entryNIN # << >> /\ entryNIN \in DOMAIN byNIN
                THEN << byNIN[entryNIN] >> ELSE << >>
  IN IF viaNin # << >> /\ viaNin[1] \in Range(viaSsid) THEN viaSsid ELSE viaSsid \o viaNin

\* The loop 'if (score > bestScore) { bestScore = score; bestMatch = match }'
\* started with bestMatch = potentialMatches[0], bestScore = 0.
RECURSIVE PickBest(_, _, _, _)
PickBest(scores, i, bestIdx, bestScore) ==
  IF i > Len(scores) THEN bestIdx
  ELSE IF scores[i] > bestScore THEN PickBest(scores, i + 1, i, scores[i])
  ELSE PickBest(scores, i + 1, bestIdx, bestScore)

\* score = 40 [SSID] + 40 [NIN] + 0.2 * ratio, kept in fifths of a point so
\* that it stays an integer: 200 + 200 + ratio. The order of scores is the same.
ScoreFifths(entrySSID, entryNIN, srcSSID, srcNIN, srcName, ratio) ==
  (IF entrySSID # << >> /\ srcSSID # << >> /\ srcSSID = entrySSID THEN 200 ELSE 0)
  + (IF entryNIN # << >> /\ srcNIN # << >> /\ srcNIN = entryNIN THEN 200 ELSE 0)
  + (IF srcName # << >> THEN ratio ELSE 0)

\* The check on the best match's name left out.
MissingName_never(srcName) == FALSE

\* if (!srcName) return Invalid, 'Source record missing name'
MissingName(srcName) == srcName = << >>

(***************************************************************************)
(* getMatchStatus of the URL-based validate handler. entry and the members *)
(* of src are records as the resolvers read them: one row of Url_fields    *)
(***************************************************************************)
\* The scoring loop: the position in src of the best match.
Url_bestMatch(entry, potentialMatches, src, d) ==
  LET scores == [ m \in DOMAIN potentialMatches |->
                    LET match == src[potentialMatches[m]]
                    IN ScoreFifths(entry.ssid, entry.nin,
                                   match.scoreSsid, match.scoreNin, match.name,
                                   token_set_ratio(entry.name,
                                                   match.name, d).v) ]
  IN potentialMatches[PickBest(scores, 1, 1, 0)]

\* Does the scoring loop call the provider with arguments it throws on?
Url_scoringThrows(entry, potentialMatches, src, d) ==
  \E m \in DOMAIN potentialMatches :
     LET srcName == src[potentialMatches[m]].name
     IN srcName # << >> /\ token_set_ratio(entry.name, srcName, d).thrown

\* Agreement under the strict policy: absence on one side only disagrees.
Url_agrees_strict(entryId, srcId) ==
  \/ entryId = << >> /\ srcId = << >>
  \/ entryId # << >> /\ srcId # << >> /\ entryId = srcId

\* ssidMatches / ninMatches: '!entryId || !srcId || entryId === srcId'
Url_agrees(entryId, srcId) == entryId = << >> \/ srcId = << >> \/ entryId = srcId

\* The try block from the index lookups on: gather, score, compare.
Url_match(entry, src, bySSID, byNIN, d) ==
  LET entrySSID == entry.ssid
      entryNIN == entry.nin
      entryName == entry.name
      potentialMatches == Gather(entrySSID, entryNIN, bySSID, byNIN)
      bestMatch == src[Url_bestMatch(entry, potentialMatches, src, d)]
      srcSSID == bestMatch.ssid
      srcNIN == bestMatch.nin
      srcName == bestMatch.name
      ssidMatches == Url_agrees(entrySSID, srcSSID)
      ninMatches == Url_agrees(entryNIN, srcNIN)
      ratio == token_set_ratio(entryName, srcName, d)
      nameSimilarity == ratio.v
      nameMatches == NameMatches(nameSimilarity)
      mismatches == (IF ~ssidMatches THEN << "SSID mismatch" >> ELSE << >>)
                    \o (IF ~ninMatches THEN << "NIN mismatch" >> ELSE << >>)
                    \o (IF ~nameMatches THEN << "Name similarity" >> ELSE << >>)
  IN IF Len(potentialMatches) = 0 THEN Invalid("No record found")
     ELSE IF Url_scoringThrows(entry, potentialMatches, src, d) THEN Raise(FaultMessage)
     ELSE IF MissingName(srcName) THEN Invalid("Source record missing name")
     ELSE IF ratio.thrown THEN Raise(FaultMessage)
     ELSE IF ssidMatches /\ ninMatches /\ nameMatches
          THEN Matched("Valid", "Verified", << >>, nameSimilarity, srcName, srcSSID, srcNIN)
     ELSE Matched("Partial Match", "Issues", mismatches, nameSimilarity,
                  srcName, srcSSID, srcNIN)

\* The terminal checks in the other order: the identifiers first.
Url_evaluate_idsFirst(entry, src, bySSID, byNIN, d) ==
  IF entry.ssid = << >> /\ entry.nin = << >> THEN Invalid("Missing both SSID and NIN")
  ELSE IF entry.name = << >> THEN Invalid("Missing name field")
  ELSE Url_match(entry, src, bySSID, byNIN, d)

\* The body of the try block: the two terminal checks on the candidate, the
\* name first, then the lookups.
Url_evaluate(entry, src, bySSID, byNIN, d) ==
  IF entry.name = << >> THEN Invalid("Missing name field")
  ELSE IF entry.ssid = << >> /\ entry.nin = << >> THEN Invalid("Missing both SSID and NIN")
  ELSE Url_match(entry, src, bySSID, byNIN, d)

\* getMatchStatus without its catch: a fault leaves the function.
Url_getMatchStatus_uncaught(entry, src, bySSID, byNIN, d) ==
  Url_evaluate(entry, src, bySSID, byNIN, d)

\* try { ... } catch (error) { return Invalid, 'System error: ' + message }
Url_getMatchStatus(entry, src, bySSID, byNIN, d) ==
  LET r == Url_evaluate(entry, src, bySSID, byNIN, d)
  IN IF r.thrown THEN SystemError(r.msg) ELSE r

(***************************************************************************)
(* getMatchStatus of the payload-based validate handler. entry and the     *)
(* members of src are rows of Payload_fields, each read under the header   *)
(* row of the dataset it is in                                             *)
(***************************************************************************)
Payload_bestMatch(entry, potentialMatches, src, d) ==
  LET e == entry
      scores == [ m \in DOMAIN potentialMatches |->
                    LET match == src[potentialMatches[m]]
                    IN ScoreFifths(e.entrySsid, e.entryNin,
                                   match.shortSsid, match.shortNin, match.name,
                                   token_set_ratio(e.name, match.name, d).v) ]
  IN potentialMatches[PickBest(scores, 1, 1, 0)]

Payload_scoringThrows(entry, potentialMatches, src, d) ==
  \E m \in DOMAIN potentialMatches :
     LET srcName == src[potentialMatches[m]].name
     IN /\ srcName # << >>
        /\ token_set_ratio(entry.name, srcName, d).thrown

\* Only a difference of two present identifiers is pushed.
Payload_issue_mismatchOnly(mismatch, notInRecords, missing, entryId, srcId) ==
  IF entryId # << >> /\ srcId # << >> THEN << mismatch >> ELSE << >>

\* The issue pushed for an identifier that does not agree.
Payload_issue(mismatch, notInRecords, missing, entryId, srcId) ==
  IF entryId # << >> /\ srcId # << >> THEN << mismatch >>
  ELSE IF entryId # << >> THEN << notInRecords >>
  ELSE IF srcId # << >> THEN << missing >>
  ELSE << >>

\* Agreement under the lenient policy: absence on either side agrees.
Payload_agrees_lenient(entryId, srcId) ==
  entryId = << >> \/ srcId = << >> \/ entryId = srcId

\* ssidMatches / ninMatches:
\* '(!entryId && !srcId) || (entryId && srcId && entryId === srcId)'
Payload_agrees(entryId, srcId) ==
  \/ entryId = << >> /\ srcId = << >>
  \/ entryId # << >> /\ srcId # << >> /\ entryId = srcId

\* The body of the outer try block.
Payload_evaluate(entry, src, bySSID, byNIN, d) ==
  LET entrySSID == entry.entrySsid
      entryNIN == entry.entryNin
      entryName == entry.name
      potentialMatches == Gather(entrySSID, entryNIN, bySSID, byNIN)
      bestMatch == src[Payload_bestMatch(entry, potentialMatches, src, d)]
      srcSSID == bestMatch.shortSsid
      srcNIN == bestMatch.shortNin
      srcName == bestMatch.name
      ssidMatches == Payload_agrees(entrySSID, srcSSID)
      ninMatches == Payload_agrees(entryNIN, srcNIN)
      ratio == token_set_ratio(entryName, srcName, d)
      \* the inner try/catch: on a fault, 100 if the names are equal, else 0
      nameSimilarity == IF ratio.thrown THEN (IF entryName = srcName THEN 100 ELSE 0)
                        ELSE ratio.v
      nameMatches == NameMatches(nameSimilarity)
      mismatches ==
        (IF ~ssidMatches
         THEN Payload_issue("SSID mismatch", "SSID not in records", "Missing SSID",
                            entrySSID, srcSSID)
         ELSE << >>)
        \o (IF ~ninMatches
            THEN Payload_issue("NIN mismatch", "NIN not in records", "Missing NIN",
                               entryNIN, srcNIN)
            ELSE << >>)
        \o (IF ~nameMatches THEN << "Name similarity" >> ELSE << >>)
  IN IF entryName = << >> THEN Invalid("Missing name field")
     ELSE IF entrySSID = << >> /\ entryNIN = << >> THEN Invalid("Missing both SSID and NIN")
     ELSE IF Len(potentialMatches) = 0 THEN Invalid("No record found")
     ELSE IF Payload_scoringThrows(entry, potentialMatches, src, d)
          THEN Raise(FaultMessage)
     ELSE IF MissingName(srcName) THEN Invalid("Source record missing name")
     ELSE IF ssidMatches /\ ninMatches /\ nameMatches
          THEN Matched("Valid", "Verified", << >>, nameSimilarity, srcName,
                       bestMatch.safeSsid, bestMatch.safeNin)
     ELSE Matched("Partial Match", "Issues", mismatches, nameSimilarity, srcName,
                  bestMatch.safeSsid, bestMatch.safeNin)

\* try { ... } catch (error) { return Invalid, 'System error: ' + message }
Payload_getMatchStatus(entry, src, bySSID, byNIN, d) ==
  LET r == Payload_evaluate(entry, src, bySSID, byNIN, d)
  IN IF r.thrown THEN SystemError(r.msg) ELSE r

\* The most data rows of a dataset; a payload carries one row more, the row
\* that header detection consumes.
MaxSource == 2
MaxEntries == 2

SeqsUpTo(S, n) == UNION { [ 1 .. k -> S ] : k \in 0 .. n }

(***************************************************************************)
(* State                                                                   *)
(***************************************************************************)
VARIABLES
  pc,               \* "idle", "indexing", "matching", "done"
  handler,          \* "none", "url", "payload"
  suppliedSource,   \* the source rows the caller supplied
  suppliedEntries,  \* the candidate rows the caller supplied
  source,           \* the source data rows the handler works on
  entries,          \* the candidate data rows the handler works on
  sourceHeaderRow,  \* payload handler: the detected header rows ("none": none)
  entriesHeaderRow,
  simDiff,          \* the similarity provider's outcome for different strings
  sourceBySSID,     \* Map: normalized SSID -> position of the record in source
  sourceByNIN,      \* Map: normalized NIN -> position of the record in source
  cursor,           \* the indexing loop's position in source
  results,          \* ProcessedEntry[]
  processingErrors, \* payload handler: the indices recorded by its catch
  response,         \* the HTTP response, once sent
  headerScan,       \* the file parser's last header-row scan: the rows and the index found
  heap,             \* the objects of the request: the entries received, the records built
  table,            \* the result table of the validation page: results, filters, sort
  cache,            \* lib/dataSource.ts: the version loaded, the clock, dataCache, the calls awaiting
  page,             \* the validation page: the file selected, its URL, the uploads awaiting
  lookup            \* the lookup handler: the request's items, the map, the results

vars == << pc, handler, suppliedSource, suppliedEntries, source, entries,
           sourceHeaderRow, entriesHeaderRow, simDiff, sourceBySSID, sourceByNIN,
           cursor, results, processingErrors, response, headerScan, heap, table, cache, page,
           lookup >>

\* The state outside the validate handlers and the file parser.
others == << table, cache, page, lookup >>

\* The state of the validate handlers and the file parser.
validation == << pc, handler, suppliedSource, suppliedEntries, source, entries,
                 sourceHeaderRow, entriesHeaderRow, simDiff, sourceBySSID, sourceByNIN,
                 cursor, results, processingErrors, response, headerScan, heap >>

NoResponse == [ status |-> 0 ]

NoScan == [ impl |-> "none", rows |-> << >>, headerRowIndex |-> 0 ]

\* useState: no results, the search box empty, every status shown, no sort.
NoSort == [ key |-> "", direction |-> "" ]

NoTable == [ results |-> << >>, filterText |-> << >>,
             statusFilter |-> << "a","l","l" >>, sortConfig |-> NoSort ]

\* The module before it is loaded: dataCache = new Map().
NoCache == [ impl |-> "none", apiEndpoint |-> "", now |-> 0, dataCache |-> << >>,
            calls |-> << >>, settled |-> [ outcome |-> "none", dataMap |-> << >> ] ]

\* The useState values of Home; 'request' is the last validate request sent.
NoPage == [ toValidateFile |-> "", toValidateFileUrl |-> "", isUploadingValidation |-> FALSE,
           showPreview |-> FALSE, isLoading |-> FALSE, uploads |-> << >>,
           request |-> [ toValidateUrl |-> "", file |-> "" ] ]

\* The lookup handler between requests.
NoLookup == [ pc |-> "idle", lookups |-> << >>, simDiff |-> [ thrown |-> FALSE, v |-> 0 ],
             dataSource |-> << >>, results |-> << >>, status |-> 0 ]

\* new Map()
EmptyMap == << >>

\* map.set(key, value): a later value for the same key replaces the earlier.
MapSet(map, key, value) ==
  [ k \in (DOMAIN map) \cup { key } |-> IF k = key THEN value ELSE map[k] ]

Init ==
  /\ pc = "idle"
  /\ handler = "none"
  /\ suppliedSource = << >>
  /\ suppliedEntries = << >>
  /\ source = << >>
  /\ entries = << >>
  /\ sourceHeaderRow = "none"
  /\ entriesHeaderRow = "none"
  /\ simDiff = Score(0)
  /\ sourceBySSID = EmptyMap
  /\ sourceByNIN = EmptyMap
  /\ cursor = 1
  /\ results = << >>
  /\ processingErrors = << >>
  /\ response = NoResponse
  /\ headerScan = NoScan
  /\ heap = EmptyMap
  /\ table = NoTable
  /\ cache = NoCache
  /\ page = NoPage
  /\ lookup = NoLookup

\* A record matched by an earlier candidate of the run is refused to a later
\* one: the result depends on the results before it.
ProcessedEntry_oncePerRecord(entryId, r) ==
  IF r.hasMatch /\ \E j \in DOMAIN results : results[j].matchedName = r.matchedName
  THEN [ entry |-> entryId, status |-> "Invalid", kind |-> "Duplicate request",
         issues |-> << >>, sim |-> -1, msg |-> "",
         matchedName |-> << >>, correctSSID |-> << >>, correctNIN |-> << >> ]
  ELSE [ entry |-> entryId, status |-> r.status, kind |-> r.kind, issues |-> r.issues,
         sim |-> r.sim, msg |-> r.msg,
         matchedName |-> IF r.hasMatch THEN r.matchedName ELSE << >>,
         correctSSID |-> IF r.hasMatch THEN r.matchedSSID ELSE << >>,
         correctNIN |-> IF r.hasMatch THEN r.matchedNIN ELSE << >> ]

\* The five output keys merged over the candidate's own fields;
\* 'matchResult.matchedName || ""' and likewise for the SSID and NIN.
ProcessedEntry(entryId, r) ==
  [ entry |-> entryId, status |-> r.status, kind |-> r.kind, issues |-> r.issues,
    sim |-> r.sim, msg |-> r.msg,
    matchedName |-> IF r.hasMatch THEN r.matchedName ELSE << >>,
    correctSSID |-> IF r.hasMatch THEN r.matchedSSID ELSE << >>,
    correctNIN |-> IF r.hasMatch THEN r.matchedNIN ELSE << >> ]

\* results.filter(r => r['Match Status'] === status).length
CountStatus(rs, status) == Cardinality({ i \in DOMAIN rs : rs[i].status = status })

\* A summary that counts the partial matches under another status text.
Summary_partialMiscounted(rs) ==
  [ total |-> Len(rs),
    valid |-> CountStatus(rs, "Valid"),
    invalid |-> CountStatus(rs, "Invalid"),
    partialMatch |-> CountStatus(rs, "Partial") ]

Summary(rs) ==
  [ total |-> Len(rs),
    valid |-> CountStatus(rs, "Valid"),
    invalid |-> CountStatus(rs, "Invalid"),
    partialMatch |-> CountStatus(rs, "Partial Match") ]

(***************************************************************************)
(* Objects: the entries a request received and the records it builds, by   *)
(* reference                                                               *)
(***************************************************************************)
\* An object is kept as the entry it was made from (base) and the results
\* whose output fields were written to it since, in order (written).
\* The entries the decoder handed over, each under its name.
Received(src, ents) == [ ref \in Range(src) \cup Range(ents) |-> [ base |-> ref, written |-> << >> ] ]

\* The objects pushed on results, and those mapped into the payload handler's
\* response, by position.
ResultRefs == << "R1", "R2", "R3", "R4", "R5", "R6" >>
ResponseRefs == << "O1", "O2", "O3", "O4", "O5", "O6" >>

OutputKeys ==
  << << "M","a","t","c","h"," ","S","t","a","t","u","s" >>,
     << "M","a","t","c","h"," ","R","e","a","s","o","n" >>,
     << "M","a","t","c","h","e","d"," ","N","a","m","e" >>,
     << "C","o","r","r","e","c","t"," ","S","S","I","D" >>,
     << "C","o","r","r","e","c","t"," ","N","I","N" >> >>

\* The values written under the five output keys for a result; the status is one
\* symbol, the reason its kind, its issues and its message.
OutputFields(p) ==
  << KV(OutputKeys[1], Str(<< p.status >>)),
     KV(OutputKeys[2], Str(<< p.kind >> \o p.issues \o << p.msg >>)),
     KV(OutputKeys[3], Str(p.matchedName)),
     KV(OutputKeys[4], Str(p.correctSSID)),
     KV(OutputKeys[5], Str(p.correctNIN)) >>

\* object[key] = value: an own key keeps its place, a new key comes last.
Put(object, key, value) ==
  IF \E i \in DOMAIN object : object[i].k = key
  THEN [ i \in DOMAIN object |-> IF object[i].k = key THEN KV(key, value) ELSE object[i] ]
  ELSE Append(object, KV(key, value))

\* { ...entry, key: value, ... }: the content of the object literal.
RECURSIVE Spread(_, _)
Spread(entry, fields) ==
  IF fields = << >> THEN entry
  ELSE Spread(Put(entry, Head(fields).k, Head(fields).v), Tail(fields))

\* The keys and values of an object: those of the entry it was spread from,
\* then the fields written for each of its results, in order.
RECURSIVE Content(_)
Content(object) ==
  IF object.written = << >> THEN EntryOf(object.base)
  ELSE Spread(Content([ object EXCEPT !.written = SubSeq(@, 1, Len(@) - 1) ]),
              OutputFields(object.written[Len(object.written)]))

\* Object.assign(entry, { ... }): the record is the entry itself.
NewObject_assignedInPlace(refs, entryRef, i) == entryRef

\* The object literal is a new object: the i-th of its array.
NewObject(refs, entryRef, i) == refs[i]

\* results.push({ ...entry, 'Match Status': ..., ... })
Pushed(h, refs, entryRef, i, p) ==
  MapSet(h, NewObject(refs, entryRef, i),
         [ h[entryRef] EXCEPT !.written = @ \o << p >> ])

\* entries.map((entry, i) => ({ ...entry, 'Match Status': results[i]['Match Status'], ... }))
Mapped(h, ents, rs) ==
  [ ref \in DOMAIN h \cup { NewObject(ResponseRefs, ents[i], i) : i \in DOMAIN ents } |->
      IF \E i \in DOMAIN ents : NewObject(ResponseRefs, ents[i], i) = ref
      THEN LET i == CHOOSE i \in DOMAIN ents : NewObject(ResponseRefs, ents[i], i) = ref
           IN [ h[ents[i]] EXCEPT !.written = @ \o << rs[i] >> ]
      ELSE h[ref] ]

(***************************************************************************)
(* The URL-based validate handler (POST), on the two decoded datasets      *)
(***************************************************************************)
Url_Request(src, ents, d) ==
  /\ pc = "idle"
  /\ handler' = "url"
  /\ suppliedSource' = src
  /\ suppliedEntries' = ents
  /\ source' = src
  /\ entries' = ents
  /\ simDiff' = d
  /\ pc' = IF Len(src) = 0 THEN "matching" ELSE "indexing"
  /\ UNCHANGED << sourceHeaderRow, entriesHeaderRow, sourceBySSID, sourceByNIN,
                  cursor, results, processingErrors, response >>
  /\ heap' = Received(src, ents)
  /\ UNCHANGED << headerScan, others >>

\* One iteration of 'for (const srcRecord of source)'.
Url_IndexRecord ==
  /\ pc = "indexing"
  /\ handler = "url"
  /\ cursor <= Len(source)
  /\ LET srcRecord == Url_rows(<< source[cursor] >>)[1]
         ssid == srcRecord.ssid
         nin == srcRecord.nin
     IN /\ sourceBySSID' = IF ssid # << >> THEN MapSet(sourceBySSID, ssid, cursor)
                           ELSE sourceBySSID
        /\ sourceByNIN' = IF nin # << >> THEN MapSet(sourceByNIN, nin, cursor)
                          ELSE sourceByNIN
  /\ cursor' = cursor + 1
  /\ pc' = IF cursor = Len(source) THEN "matching" ELSE "indexing"
  /\ UNCHANGED << handler, suppliedSource, suppliedEntries, source, entries,
                  sourceHeaderRow, entriesHeaderRow, simDiff, results,
                  processingErrors, response >>
  /\ UNCHANGED << headerScan, heap, others >>

\* One iteration of 'for (const entry of entries)'; an exception leaving
\* getMatchStatus would reach the handler's catch and end the request with 500.
Url_EvaluateEntry ==
  /\ pc = "matching"
  /\ handler = "url"
  /\ Len(results) < Len(entries)
  /\ LET entryId == entries[Len(results) + 1]
         matchResult == Url_getMatchStatus(Url_rows(<< entryId >>)[1], Url_rows(source),
                                           sourceBySSID, sourceByNIN, simDiff)
     IN IF matchResult.thrown
        THEN /\ response' = [ status |-> 500, error |-> "Internal Server Error",
                              details |-> matchResult.msg ]
             /\ pc' = "done"
             /\ UNCHANGED << results, heap >>
        ELSE /\ results' = Append(results, ProcessedEntry(entryId, matchResult))
             /\ heap' = Pushed(heap, ResultRefs, entryId, Len(results'), results'[Len(results')])
             /\ UNCHANGED << pc, response >>
  /\ UNCHANGED << handler, suppliedSource, suppliedEntries, source, entries,
                  sourceHeaderRow, entriesHeaderRow, simDiff, sourceBySSID,
                  sourceByNIN, cursor, processingErrors >>
  /\ UNCHANGED << headerScan, others >>

Url_Respond ==
  /\ pc = "matching"
  /\ handler = "url"
  /\ Len(results) = Len(entries)
  /\ response' = [ status |-> 200, results |-> results, summary |-> Summary(results) ]
  /\ pc' = "done"
  /\ UNCHANGED << handler, suppliedSource, suppliedEntries, source, entries,
                  sourceHeaderRow, entriesHeaderRow, simDiff, sourceBySSID,
                  sourceByNIN, cursor, results, processingErrors >>
  /\ UNCHANGED << headerScan, heap, others >>

(***************************************************************************)
(* The payload-based validate handler (POST)                               *)
(***************************************************************************)
\* rows.slice(headerRowIndex + 1), the index zero-based
DropThrough(rows, headerRowIndex) == SubSeq(rows, headerRowIndex + 2, Len(rows))

Rejected(message) ==
  [ ok |-> FALSE, details |-> message, source |-> << >>, entries |-> << >>,
    sourceHeaderRow |-> "none", entriesHeaderRow |-> "none" ]

\* validateRequestPayload on two arrays of objects: the emptiness checks, then
\* header detection, which makes rows 0 .. header of each array no data row.
validateRequestPayload(sourceRows, entryRows) ==
  LET sourceHeaderRowIndex == findHeaderRow(sourceRows)
      entriesHeaderRowIndex == findHeaderRow(entryRows)
      sourceDataRows == DropThrough(sourceRows, sourceHeaderRowIndex)
      entryDataRows == DropThrough(entryRows, entriesHeaderRowIndex)
  IN IF Len(sourceRows) = 0 THEN Rejected("Source array cannot be empty")
     ELSE IF Len(entryRows) = 0 THEN Rejected("Entries array cannot be empty")
     ELSE IF Len(sourceDataRows) = 0
          THEN Rejected("No data rows found in source after header detection")
     ELSE IF Len(entryDataRows) = 0
          THEN Rejected("No data rows found in entries after header detection")
     ELSE [ ok |-> TRUE, details |-> "",
            source |-> sourceDataRows,
            entries |-> entryDataRows,
            sourceHeaderRow |-> sourceRows[sourceHeaderRowIndex + 1],
            entriesHeaderRow |-> entryRows[entriesHeaderRowIndex + 1] ]

Payload_Request(src, ents, d) ==
  /\ pc = "idle"
  /\ handler' = "payload"
  /\ suppliedSource' = src
  /\ suppliedEntries' = ents
  /\ simDiff' = d
  /\ LET validatedPayload == validateRequestPayload(src, ents)
     IN /\ source' = validatedPayload.source
        /\ entries' = validatedPayload.entries
        /\ sourceHeaderRow' = validatedPayload.sourceHeaderRow
        /\ entriesHeaderRow' = validatedPayload.entriesHeaderRow
        /\ IF validatedPayload.ok
           THEN pc' = "indexing" /\ UNCHANGED response
           ELSE /\ pc' = "done"
                /\ response' = [ status |-> 400, error |-> "Invalid payload",
                                 details |-> validatedPayload.details ]
  /\ UNCHANGED << sourceBySSID, sourceByNIN, cursor, results, processingErrors >>
  /\ heap' = Received(src, ents)
  /\ UNCHANGED << headerScan, others >>

\* One iteration of 'for (const srcRecord of source)'.
Payload_IndexRecord ==
  /\ pc = "indexing"
  /\ handler = "payload"
  /\ cursor <= Len(source)
  /\ LET srcRecord == Payload_rows(sourceHeaderRow, << source[cursor] >>)[1]
         ssid == srcRecord.indexSsid
         nin == srcRecord.indexNin
     IN /\ sourceBySSID' = IF ssid # << >> THEN MapSet(sourceBySSID, ssid, cursor)
                           ELSE sourceBySSID
        /\ sourceByNIN' = IF nin # << >> THEN MapSet(sourceByNIN, nin, cursor)
                          ELSE sourceByNIN
  /\ cursor' = cursor + 1
  /\ pc' = IF cursor = Len(source) THEN "matching" ELSE "indexing"
  /\ UNCHANGED << handler, suppliedSource, suppliedEntries, source, entries,
                  sourceHeaderRow, entriesHeaderRow, simDiff, results,
                  processingErrors, response >>
  /\ UNCHANGED << headerScan, heap, others >>

\* The result pushed by the loop's own catch.
ProcessingError(entryId, message) ==
  [ ProcessedEntry(entryId, Invalid("Processing error")) EXCEPT !.msg = message ]

\* One iteration of 'for (let i = 0; i < entries.length; i++)', with its
\* try/catch around getMatchStatus.
Payload_EvaluateEntry ==
  /\ pc = "matching"
  /\ handler = "payload"
  /\ Len(results) < Len(entries)
  /\ LET i == Len(results) + 1
         matchResult == Payload_getMatchStatus(Payload_rows(entriesHeaderRow, << entries[i] >>)[1],
                                               Payload_rows(sourceHeaderRow, source),
                                               sourceBySSID, sourceByNIN, simDiff)
     IN IF matchResult.thrown
        THEN /\ processingErrors' = Append(processingErrors, i - 1)
             /\ results' = Append(results, ProcessingError(entries[i], matchResult.msg))
        ELSE /\ results' = Append(results, ProcessedEntry(entries[i], matchResult))
             /\ UNCHANGED processingErrors
  /\ heap' = Pushed(heap, ResultRefs, entries[Len(results')], Len(results'), results'[Len(results')])
  /\ UNCHANGED << pc, handler, suppliedSource, suppliedEntries, source, entries,
                  sourceHeaderRow, entriesHeaderRow, simDiff, sourceBySSID,
                  sourceByNIN, cursor, response >>
  /\ UNCHANGED << headerScan, others >>

\* The response: entries.map((entry, i) => entry merged with the output keys
\* of results[i]), and the summary counted over results.
Payload_Respond ==
  /\ pc = "matching"
  /\ handler = "payload"
  /\ Len(results) = Len(entries)
  /\ response' =
       [ status |-> 200,
         results |-> [ i \in DOMAIN entries |-> [ results[i] EXCEPT !.entry = entries[i] ] ],
         summary |-> Summary(results),
         processingErrors |-> Len(processingErrors) ]
  /\ pc' = "done"
  /\ UNCHANGED << handler, suppliedSource, suppliedEntries, source, entries,
                  sourceHeaderRow, entriesHeaderRow, simDiff, sourceBySSID,
                  sourceByNIN, cursor, results, processingErrors >>
  /\ heap' = Mapped(heap, entries, results)
  /\ UNCHANGED << headerScan, others >>

(***************************************************************************)
(* The end of a request                                                    *)
(***************************************************************************)
\* A handler that returned its response without giving up its results array.
Return_keepsResults ==
  /\ pc = "done"
  /\ pc' = "idle"
  /\ handler' = "none"
  /\ suppliedSource' = << >>
  /\ suppliedEntries' = << >>
  /\ source' = << >>
  /\ entries' = << >>
  /\ sourceHeaderRow' = "none"
  /\ entriesHeaderRow' = "none"
  /\ simDiff' = Score(0)
  /\ sourceBySSID' = EmptyMap
  /\ sourceByNIN' = EmptyMap
  /\ cursor' = 1
  /\ processingErrors' = << >>
  /\ response' = NoResponse
  /\ UNCHANGED results
  /\ heap' = EmptyMap
  /\ UNCHANGED << headerScan, others >>

\* POST has returned its response: the body, the datasets, the two maps, the
\* results and every other local of the call are gone, and the next call
\* starts from new ones ('const sourceBySSID = new Map()', 'const results = []').
Return ==
  /\ pc = "done"
  /\ pc' = "idle"
  /\ handler' = "none"
  /\ suppliedSource' = << >>
  /\ suppliedEntries' = << >>
  /\ source' = << >>
  /\ entries' = << >>
  /\ sourceHeaderRow' = "none"
  /\ entriesHeaderRow' = "none"
  /\ simDiff' = Score(0)
  /\ sourceBySSID' = EmptyMap
  /\ sourceByNIN' = EmptyMap
  /\ cursor' = 1
  /\ results' = << >>
  /\ processingErrors' = << >>
  /\ response' = NoResponse
  /\ heap' = EmptyMap
  /\ UNCHANGED << headerScan, others >>

(***************************************************************************)
(* Specification                                                           *)
(***************************************************************************)
\* A request arrives: any datasets within the bounds, any provider outcome.
Url_Receive ==
  /\ pc = "idle"
  /\ \E src \in SeqsUpTo(Url_SourcePool, MaxSource),
        ents \in SeqsUpTo(Url_EntryPool, MaxEntries),
        d \in SimDiffOutcomes : Url_Request(src, ents, d)

Payload_Receive ==
  /\ pc = "idle"
  /\ \E src \in SeqsUpTo(Payload_SourcePool, MaxSource + 1),
        ents \in SeqsUpTo(Payload_EntryPool, MaxEntries + 1),
        d \in SimDiffOutcomes : Payload_Request(src, ents, d)

Next ==
  \/ Url_Receive
  \/ Url_IndexRecord
  \/ Url_EvaluateEntry
  \/ Url_Respond
  \/ Payload_Receive
  \/ Payload_IndexRecord
  \/ Payload_EvaluateEntry
  \/ Payload_Respond
  \/ Return

Spec == Init /\ [][Next]_vars


(***************************************************************************)
(* The same handlers on further datasets                                   *)
(***************************************************************************)
Probe_UrlReceive ==
  /\ pc = "idle"
  /\ \E f \in Probe_UrlFamilies :
       \E src \in SeqsUpTo(f.source, MaxSource),
          ents \in SeqsUpTo(f.entries, MaxEntries),
          d \in SimDiffOutcomes : Url_Request(src, ents, d)

\* A payload of a first row and up to MaxSource (MaxEntries) further rows.
Probe_PayloadReceive ==
  /\ pc = "idle"
  /\ \E f \in Probe_PayloadFamilies :
       \E src \in SeqsUpTo(f.source, MaxSource),
          ents \in SeqsUpTo(f.entries, MaxEntries),
          d \in SimDiffOutcomes :
            Payload_Request(<< f.first >> \o src, << f.first >> \o ents, d)

ProbeNext ==
  \/ Probe_UrlReceive
  \/ Url_IndexRecord
  \/ Url_EvaluateEntry
  \/ Url_Respond
  \/ Probe_PayloadReceive
  \/ Payload_IndexRecord
  \/ Payload_EvaluateEntry
  \/ Payload_Respond
  \/ Return

ProbeSpec == Init /\ [][ProbeNext]_vars

(***************************************************************************)
(* The payload-based handler on any JSON body with source and entries      *)
(***************************************************************************)
MAX_ENTRIES_LIMIT == 20000
MAX_SOURCE_LIMIT == 500000

\* A value of the body: not an array, or an array of the given length whose
\* first elements are rows (an array longer than its limit is carried by
\* its first elements and its length).
NotAnArray == [ isArray |-> FALSE, rows |-> << >>, length |-> 0 ]
ArrayOf(rows) == [ isArray |-> TRUE, rows |-> rows, length |-> Len(rows) ]
ArrayBeyond(rows, limit) == [ isArray |-> TRUE, rows |-> rows, length |-> limit + 1 ]

\* Elements that are no non-null, non-array object.
NonObjects == { "(null)", "(array)", "(string)" }

\* A length check that lets every array through.
TooLarge_never(length, limit) == FALSE

\* payload.source.length > MAX_SOURCE_LIMIT
TooLarge(length, limit) == length > limit

\* validateEntry: throws unless the element is a non-null, non-array object.
validateEntry(entry) == entry \notin NonObjects

\* The first element validateEntry throws on, 0 if none.
FirstInvalid(rows) ==
  MaxOrZero({ i \in DOMAIN rows :
                /\ ~validateEntry(rows[i])
                /\ \A j \in 1 .. (i - 1) : validateEntry(rows[j]) })

\* validateRequestPayload up to the element checks: the error it throws, or
\* ok for a body that reaches header detection.
Payload_checkBody(body) ==
  IF ~body.source.isArray THEN Rejected("Source must be an array")
  ELSE IF body.source.length = 0 THEN Rejected("Source array cannot be empty")
  ELSE IF TooLarge(body.source.length, MAX_SOURCE_LIMIT) THEN Rejected("Source array too large")
  ELSE IF ~body.entries.isArray THEN Rejected("Entries must be an array")
  ELSE IF body.entries.length = 0 THEN Rejected("Entries array cannot be empty")
  ELSE IF TooLarge(body.entries.length, MAX_ENTRIES_LIMIT) THEN Rejected("Entries array too large")
  ELSE IF FirstInvalid(body.source.rows) # 0 THEN Rejected("Invalid source entry")
  ELSE IF FirstInvalid(body.entries.rows) # 0 THEN Rejected("Invalid entry")
  ELSE [ Rejected("") EXCEPT !.ok = TRUE ]

\* POST from the parsed body to the end of validation: the 400 response of
\* the catch around validateRequestPayload, or the request on its arrays.
Payload_RequestBody(body, d) ==
  IF Payload_checkBody(body).ok
  THEN Payload_Request(body.source.rows, body.entries.rows, d)
  ELSE /\ pc = "idle"
       /\ handler' = "payload"
       /\ suppliedSource' = body.source.rows
       /\ suppliedEntries' = body.entries.rows
       /\ simDiff' = d
       /\ pc' = "done"
       /\ response' = [ status |-> 400, error |-> "Invalid payload",
                        details |-> Payload_checkBody(body).details ]
       /\ UNCHANGED << source, entries, sourceHeaderRow, entriesHeaderRow,
                       sourceBySSID, sourceByNIN, cursor, results, processingErrors,
                       headerScan, heap, others >>

\* The values a body has for source and for entries.
Body_SourceValues ==
  { NotAnArray }
    \cup { ArrayOf(rows) : rows \in SeqsUpTo({ "S1", "S2" } \cup NonObjects, MaxSource) }
    \cup { ArrayBeyond(rows, MAX_SOURCE_LIMIT) : rows \in SeqsUpTo({ "S1" }, MaxSource) }

Body_EntriesValues ==
  { NotAnArray }
    \cup { ArrayOf(rows) : rows \in SeqsUpTo({ "H1", "D1" } \cup NonObjects, MaxEntries) }
    \cup { ArrayBeyond(rows, MAX_ENTRIES_LIMIT) : rows \in SeqsUpTo({ "H1" }, MaxEntries) }

Bodies == [ source : Body_SourceValues, entries : Body_EntriesValues ]

Payload_ReceiveBody ==
  /\ pc = "idle"
  /\ \E body \in Bodies, d \in SimDiffOutcomes : Payload_RequestBody(body, d)

BodyNext ==
  \/ Payload_ReceiveBody
  \/ Payload_IndexRecord
  \/ Payload_EvaluateEntry
  \/ Payload_Respond
  \/ Return

BodySpec == Init /\ [][BodyNext]_vars

(***************************************************************************)
(* Header-row detection of the file parsers: findBestHeaderRowIndex of     *)
(* app/lookup/page.tsx and of lib/dataSource.ts, on the rows of a sheet    *)
(* read as arrays of cells.                                                *)
(***************************************************************************)

SheetRowIds ==
  { "R_data", "R_ids", "R_bank", "R_rich", "R_names", "R_numbers", "R_title", "R_padded",
    "R_empty" }

\* The rows of the model, by name.
SheetRow(id) ==
    \* a data row: no keyword in it
  CASE id = "R_data" ->
      << Str(<<"A","1">>),
         Str(<<"N","1">>),
         Str(<<"A","l"," ","B","o">>) >>
    \* a header row: ssid, id, nin, name
    [] id = "R_ids" ->
      << Str(<<"S","S","I","D">>),
         Str(<<"N","I","N">>),
         Str(<<"N","a","m","e">>) >>
    \* another header row of four keywords: s/n, account, pension, verification
    [] id = "R_bank" ->
      << Str(<<"S","/","N">>),
         Str(<<"A","c","c","o","u","n","t">>),
         Str(<<"P","e","n","s","i","o","n">>),
         Str(<<"V","e","r","i","f","i","c","a","t","i","o","n">>) >>
    \* a header row of six keywords: ssid, id, nin, name, bank, account
    [] id = "R_rich" ->
      << Str(<<"S","S","I","D">>),
         Str(<<"N","I","N">>),
         Str(<<"N","a","m","e">>),
         Str(<<"B","a","n","k">>),
         Str(<<"A","c","c","o","u","n","t">>) >>
    \* first and last name columns: one keyword for the page, three for the library
    [] id = "R_names" ->
      << Str(<<"F","i","r","s","t","N","a","m","e">>),
         Str(<<"L","a","s","t","N","a","m","e">>) >>
    \* keywords in one cell among numbers: fewer than half the cells are strings
    [] id = "R_numbers" ->
      << Num(1),
         Num(2),
         Num(3),
         Str(<<"s","s","i","d"," ","n","i","n"," ","n","a","m","e"," ","b","a","n","k">>) >>
    \* keywords in a single non-empty cell
    [] id = "R_title" ->
      << Str(<<"s","s","i","d"," ","n","i","n"," ","n","a","m","e"," ","b","a","n","k"," ","a","c","c","o","u","n","t">>),
         Null,
         Str(<< >>) >>
    \* keywords in one cell among numbers, followed by cells that hold ''
    [] id = "R_padded" ->
      << Num(1),
         Num(2),
         Str(<<"s","s","i","d"," ","n","i","n"," ","n","a","m","e"," ","b","a","n","k">>),
         Str(<< >>),
         Str(<< >>) >>
    \* an empty row
    [] id = "R_empty" ->
      << >>

\* headerKeywords of the page's copy
Page_headerKeywords ==
  << <<"s","s","i","d">>,
     <<"n","i","n">>,
     <<"n","a","m","e">>,
     <<"i","d">>,
     <<"p","e","n","s","i","o","n">>,
     <<"a","c","c","o","u","n","t">>,
     <<"b","a","n","k">>,
     <<"v","e","r","i","f","i","c","a","t","i","o","n">>,
     <<"n","o">>,
     <<"s","/","n">> >>

\* headerKeywords of the library's copy
Lib_headerKeywords ==
  Page_headerKeywords \o << <<"f","i","r","s","t","n","a","m","e">>, <<"l","a","s","t","n","a","m","e">> >>

HeaderImpls == { "page", "lib" }

headerKeywords(impl) == IF impl = "page" THEN Page_headerKeywords ELSE Lib_headerKeywords

\* 'Check the first 10 rows for the best candidate'
HEADER_SCAN_ROWS == 10

\* row.filter(cell => typeof cell === 'string').length
stringCellCount(row) == Cardinality({ i \in DOMAIN row : row[i].t = "string" })

\* row.filter(cell => cell != null && cell !== '').length
totalCellCount(row) ==
  Cardinality({ i \in DOMAIN row : ~IsNullish(row[i]) /\ row[i] # Str(<< >>) })

\* A cell as Array.prototype.join writes it: null and undefined as ''.
JoinedCell(cell) == IF IsNullish(cell) THEN << >> ELSE String(cell)

\* row.join(' ').toLowerCase()
rowStr(row) == toLowerCase(JoinSpace([ i \in DOMAIN row |-> JoinedCell(row[i]) ]))

\* headerKeywords.filter(k => rowStr.includes(k)).length
keywordMatches(keywords, row) ==
  Cardinality({ k \in DOMAIN keywords : IndexOf(rowStr(row), keywords[k]) # 0 })

\* The two 'continue's of the loop: an empty row, a row of fewer than two
\* non-empty cells, a row of which fewer than half the non-empty cells are strings
\* (stringCellCount / totalCellCount < 0.5).
SkippedRow(row) ==
  \/ Len(row) = 0
  \/ totalCellCount(row) < 2
  \/ 2 * stringCellCount(row) < totalCellCount(row)

\* What the loop computes of each row, once per row.
HeaderRowFacts ==
  [ impl \in HeaderImpls |->
      [ id \in SheetRowIds |->
          [ skipped |-> SkippedRow(SheetRow(id)),
            keywordMatches |-> keywordMatches(headerKeywords(impl), SheetRow(id)) ] ] ]

\* 'if (keywordMatches > maxKeywords)' with the comparison turned into >=.
Improves_orEquals(matches, maxKeywords) == matches >= maxKeywords

\* 'if (keywordMatches > maxKeywords)'
Improves(matches, maxKeywords) == matches > maxKeywords

Minimum(a, b) == IF a < b THEN a ELSE b

\* The loop from row i (counted from 0) on, with the two locals.
RECURSIVE HeaderScanFrom(_, _, _, _, _)
HeaderScanFrom(impl, rows, i, maxKeywords, headerRowIndex) ==
  IF ~(i < Minimum(HEADER_SCAN_ROWS, Len(rows))) THEN headerRowIndex
  ELSE LET facts == HeaderRowFacts[impl][rows[i + 1]]
       IN IF facts.skipped
          THEN HeaderScanFrom(impl, rows, i + 1, maxKeywords, headerRowIndex)
          ELSE IF Improves(facts.keywordMatches, maxKeywords)
          THEN HeaderScanFrom(impl, rows, i + 1, facts.keywordMatches, i)
          ELSE HeaderScanFrom(impl, rows, i + 1, maxKeywords, headerRowIndex)

findBestHeaderRowIndex(impl, rows) == HeaderScanFrom(impl, rows, 0, 0, 0)

\* The sheets scanned: data rows first, as many as the scan reads and one or two
\* more, then a few rows of any kind.
MaxSheetTail == 2

DataRows(n) == [ i \in 1 .. n |-> "R_data" ]

SheetsScanned ==
  { DataRows(n) \o tail : n \in 0 .. (HEADER_SCAN_ROWS + 1),
                          tail \in SeqsUpTo(SheetRowIds, MaxSheetTail) }

\* const headerRowIndex = findBestHeaderRowIndex(rowsAsArrays)
Header_Scan ==
  /\ headerScan = NoScan
  /\ pc = "idle"
  /\ \E impl \in HeaderImpls, rows \in SheetsScanned :
       headerScan' = [ impl |-> impl, rows |-> rows,
                       headerRowIndex |-> findBestHeaderRowIndex(impl, rows) ]
  /\ UNCHANGED << pc, handler, suppliedSource, suppliedEntries, source, entries,
                  sourceHeaderRow, entriesHeaderRow, simDiff, sourceBySSID, sourceByNIN,
                  cursor, results, processingErrors, response, heap, others >>

\* The parse is over; the next file is scanned afresh.
Header_Done ==
  /\ headerScan # NoScan
  /\ headerScan' = NoScan
  /\ UNCHANGED << pc, handler, suppliedSource, suppliedEntries, source, entries,
                  sourceHeaderRow, entriesHeaderRow, simDiff, sourceBySSID, sourceByNIN,
                  cursor, results, processingErrors, response, heap, others >>

HeaderNext == Header_Scan \/ Header_Done

HeaderSpec == Init /\ [][HeaderNext]_vars

(***************************************************************************)
(* The result table of the validation page (ResultTable, handleApproveMatch) *)
(***************************************************************************)
\* The most rows of a response shown in the table.
MaxRows == 3

\* The rows of a validate response, by name: the candidate's name column and
\* two of the columns the handler adds.
ResultRow(id) ==
  CASE id = "T_bo" ->
         << KV("FULL NAME", Str(<< "B","o" >>)),
            KV("Match Status", Str(<< "P","a","r","t","i","a","l"," ","M","a","t","c","h" >>)),
            KV("Match Reason", Str(<< "I","s","s","u","e","s" >>)) >>
    [] id = "T_al" ->
         << KV("FULL NAME", Str(<< "A","l" >>)),
            KV("Match Status", Str(<< "V","a","l","i","d" >>)),
            KV("Match Reason", Str(<< "V","e","r","i","f","i","e","d" >>)) >>
    [] id = "T_cy" ->
         << KV("FULL NAME", Str(<< "C","y" >>)),
            KV("Match Status", Str(<< "I","n","v","a","l","i","d" >>)),
            KV("Match Reason", Str(<< "N","o"," ","m","a","t","c","h" >>)) >>

ResultRowIds == { "T_bo", "T_al", "T_cy" }

\* What is typed in the search box.
FilterTexts == { << >>, << "b","o" >>, << "M","A" >> }

\* responseHeaders: the headers of the response, 'Match Status' among them.
tableHeaders == << "FULL NAME", "Match Status", "Match Reason" >>

\* possibleStatusColumns.find(col => tableHeaders.includes(col)) || null
statusColumn ==
  LET possibleStatusColumns ==
        << "status", "Status", "Match Status", "matchStatus", "validation_status" >>
      found == { i \in DOMAIN possibleStatusColumns :
                   possibleStatusColumns[i] \in Range(tableHeaders) }
  IN IF found = {} THEN "" ELSE possibleStatusColumns[MinOf(found)]

\* data.filter(row => matchesText && matchesStatus): the positions in data of
\* the rows kept, in order.
filteredData(data, filterText, statusFilter) ==
  LET matchesText(row) ==
        \/ filterText = << >>
        \/ \E i \in DOMAIN row :
             IndexOf(toLowerCase(String(row[i].v)), toLowerCase(filterText)) # 0
      matchesStatus(row) ==
        \/ statusFilter = << "a","l","l" >>
        \/ statusColumn # "" /\ Get(row, statusColumn) = Str(statusFilter)
  IN SelectSeq([ k \in DOMAIN data |-> k ],
               LAMBDA k : matchesText(data[k]) /\ matchesStatus(data[k]))

\* The UTF-16 code units of the characters of the model, in increasing order.
CodeUnits == << " " >> \o DigitChars \o UpperChars \o LowerChars

\* a < b on two strings: by code units, a proper prefix first.
RECURSIVE LessThan(_, _)
LessThan(a, b) ==
  IF b = << >> THEN FALSE
  ELSE IF a = << >> THEN TRUE
  ELSE IF Head(a) = Head(b) THEN LessThan(Tail(a), Tail(b))
  ELSE (CHOOSE i \in DOMAIN CodeUnits : CodeUnits[i] = Head(a))
         < (CHOOSE i \in DOMAIN CodeUnits : CodeUnits[i] = Head(b))

\* [...filteredData].sort((a, b) => ...): the comparator orders the rows by the
\* value under sortConfig.key, and the sort is stable, so a row comes after the
\* rows the comparator puts before it and the equal rows that precede it.
sortedData(data, filtered, sortConfig) ==
  IF sortConfig = NoSort THEN filtered
  ELSE LET value(p) == String(Get(data[filtered[p]], sortConfig.key))
           compare(p, q) ==
             IF LessThan(value(p), value(q))
             THEN (IF sortConfig.direction = "asc" THEN -1 ELSE 1)
             ELSE IF LessThan(value(q), value(p))
             THEN (IF sortConfig.direction = "asc" THEN 1 ELSE -1)
             ELSE 0
           rank(q) ==
             1 + Cardinality({ p \in DOMAIN filtered :
                                 compare(p, q) < 0 \/ (compare(p, q) = 0 /\ p < q) })
       IN [ r \in DOMAIN filtered |->
              filtered[CHOOSE q \in DOMAIN filtered : rank(q) = r] ]

\* The rows of <tbody>, each as the position in data of the record it shows.
Displayed ==
  sortedData(table.results,
             filteredData(table.results, table.filterText, table.statusFilter),
             table.sortConfig)

\* handleSort: the setSortConfig updater.
handleSort(current, key) ==
  IF current = NoSort \/ current.key # key THEN [ key |-> key, direction |-> "asc" ]
  ELSE IF current.direction = "asc" THEN [ key |-> key, direction |-> "desc" ]
  ELSE NoSort

\* recordToUpdate['Match Status'] = 'Valid'; recordToUpdate['Match Reason'] = ...
Approved(record) ==
  Put(Put(record, "Match Status", Str(<< "V","a","l","i","d" >>)),
      "Match Reason", Str(<< "M","a","n","u","a","l","l","y"," ","A","p","p","r","o","v","e","d"," ","b","y"," ","U","s","e","r" >>))

\* handleApproveMatch(indexToUpdate): updatedResults[indexToUpdate], if any.
handleApproveMatch(rows, indexToUpdate) ==
  IF indexToUpdate \in DOMAIN rows
  THEN [ rows EXCEPT ![indexToUpdate] = Approved(@) ]
  ELSE rows

\* setResults(result.results): the table is mounted with its initial state.
Table_setResults ==
  /\ table.results = << >>
  /\ \E ids \in SeqsUpTo(ResultRowIds, MaxRows) :
       /\ ids # << >>
       /\ table' = [ NoTable EXCEPT !.results = [ k \in DOMAIN ids |-> ResultRow(ids[k]) ] ]
  /\ UNCHANGED << validation, cache, page, lookup >>

\* onChange of the search box: setFilterText(e.target.value)
Table_setFilterText ==
  /\ table.results # << >>
  /\ \E text \in FilterTexts : table' = [ table EXCEPT !.filterText = text ]
  /\ UNCHANGED << validation, cache, page, lookup >>

\* onChange of the select: 'all' or one of uniqueStatuses.
Table_setStatusFilter ==
  /\ table.results # << >>
  /\ statusColumn # ""
  /\ \E status \in { << "a","l","l" >> } \cup
                   { Get(table.results[k], statusColumn).s : k \in DOMAIN table.results } :
       table' = [ table EXCEPT !.statusFilter = status ]
  /\ UNCHANGED << validation, cache, page, lookup >>

\* onClick of a column header: handleSort(header)
Table_handleSort ==
  /\ table.results # << >>
  /\ \E header \in Range(tableHeaders) :
       table' = [ table EXCEPT !.sortConfig = handleSort(@, header) ]
  /\ UNCHANGED << validation, cache, page, lookup >>

\* The Approve button of row i of <tbody>, rendered for a row whose status is
\* 'Partial Match' or 'Invalid': onClick={() => onApproveMatch(i)}
Table_Approve(i) ==
  /\ i \in DOMAIN Displayed
  /\ statusColumn # ""
  /\ Get(table.results[Displayed[i]], statusColumn)
       \in { Str(<< "P","a","r","t","i","a","l"," ","M","a","t","c","h" >>), Str(<< "I","n","v","a","l","i","d" >>) }
  /\ table' = [ table EXCEPT !.results = handleApproveMatch(@, i) ]
  /\ UNCHANGED << validation, cache, page, lookup >>

\* handleClearSession: setResults([]) unmounts the table.
Table_Clear ==
  /\ table.results # << >>
  /\ table' = NoTable
  /\ UNCHANGED << validation, cache, page, lookup >>

TableNext ==
  \/ Table_setResults
  \/ Table_setFilterText
  \/ Table_setStatusFilter
  \/ Table_handleSort
  \/ \E i \in 1 .. MaxRows : Table_Approve(i)
  \/ Table_Clear

TableSpec == Init /\ [][TableNext]_vars

(***************************************************************************)
(* The data source cache (lib/dataSource.ts, in its two versions)          *)
(***************************************************************************)
CACHE_DURATION_MS == 10 * 60 * 1000

\* The clock of the model advances five minutes at a time, MaxTicks times.
TickMs == 5 * 60 * 1000
MaxTicks == 3

\* The calls of getDataSource that can be awaiting a response at once.
MaxCalls == 2

\* The files a source URL serves, as the records after the header row; a file
\* without any row is "F_none".
SourceFile(id) ==
  CASE id = "F_one" -> << "S1" >>
    [] id = "F_two" -> << "S6", "S3", "S4" >>
    [] id = "F_none" -> << >>

SourceFileIds == { "F_one", "F_two", "F_none" }

\* for (const record of jsonData) { const ssid = normalize(extractField(record,
\* ['SSID', 'ssid'])); if (ssid) dataMap.set(ssid, record); }
RECURSIVE Lib_dataMap(_)
Lib_dataMap(jsonData) ==
  IF jsonData = << >> THEN EmptyMap
  ELSE LET record == jsonData[Len(jsonData)]
           before == Lib_dataMap(SubSeq(jsonData, 1, Len(jsonData) - 1))
           ssid == normalize(Str(Lib_extractField(EntryOf(record),
                                                  << <<"S","S","I","D">>, <<"s","s","i","d">> >>)))
       IN IF ssid # << >> THEN MapSet(before, ssid, record) ELSE before

\* cachedEntry && (now - cachedEntry.timestamp < CACHE_DURATION_MS)
CacheHit(c, cacheKey) ==
  /\ cacheKey \in DOMAIN c.dataCache
  /\ c.now - c.dataCache[cacheKey].timestamp < CACHE_DURATION_MS

Settled(c, outcome, dataMap) ==
  [ c EXCEPT !.settled = [ outcome |-> outcome, dataMap |-> dataMap ] ]

Awaiting(c, providedUrl, cacheKey, fetched) ==
  [ c EXCEPT !.calls = Append(@, [ providedUrl |-> providedUrl, cacheKey |-> cacheKey,
                                   now |-> c.now, awaiting |-> fetched ]) ]

\* getDataSource(url) of lib/dataSource.ts up to its first await: the cache is
\* read under 'url || DEFAULT_SOURCE_URL'.
Lib_getDataSource(c, url) ==
  LET urlToUse == IF url # "" THEN url ELSE "default"
  IN IF CacheHit(c, urlToUse)
     THEN Settled(c, "hit", c.dataCache[urlToUse].dataMap)
     ELSE Awaiting(c, url, urlToUse, "content")

\* getDataSource(providedUrl) of the version that asks an API endpoint for the
\* default file, up to its first await: the cache is read in the branch without
\* a provided URL only.
Api_getDataSource(c, providedUrl) ==
  IF providedUrl # "" THEN Awaiting(c, providedUrl, providedUrl, "content")
  ELSE IF c.apiEndpoint = "" THEN Settled(c, "thrown", EmptyMap)
  ELSE IF CacheHit(c, c.apiEndpoint)
  THEN Settled(c, "hit", c.dataCache[c.apiEndpoint].dataMap)
  ELSE Awaiting(c, providedUrl, c.apiEndpoint, "api")

getDataSource(c, url) ==
  IF c.impl = "lib" THEN Lib_getDataSource(c, url) ELSE Api_getDataSource(c, url)

\* The call at position k has settled.
Without(calls, k) == SubSeq(calls, 1, k - 1) \o SubSeq(calls, k + 1, Len(calls))

\* The module is loaded: the cache warmer calls getDataSource().
Cache_Load ==
  /\ cache.impl = "none"
  /\ \E version \in { [ impl |-> "lib", apiEndpoint |-> "" ],
                      [ impl |-> "api", apiEndpoint |-> "endpoint" ],
                      [ impl |-> "api", apiEndpoint |-> "" ] } :
       cache' = getDataSource([ cache EXCEPT !.impl = version.impl,
                                             !.apiEndpoint = version.apiEndpoint ], "")
  /\ UNCHANGED << validation, table, page, lookup >>

\* A request handler calls getDataSource(url): no URL, or the caller's.
Cache_Call(url) ==
  /\ cache.impl # "none"
  /\ Len(cache.calls) < MaxCalls
  /\ cache' = getDataSource(cache, url)
  /\ UNCHANGED << validation, table, page, lookup >>

\* await fetch(apiEndpoint), await apiResponse.json(): a file URL, or a throw.
Cache_ApiResponds(k, ok) ==
  /\ k \in DOMAIN cache.calls
  /\ cache.calls[k].awaiting = "api"
  /\ cache' = IF ok THEN [ cache EXCEPT !.calls[k].awaiting = "content" ]
              ELSE Settled([ cache EXCEPT !.calls = Without(@, k) ], "thrown", EmptyMap)
  /\ UNCHANGED << validation, table, page, lookup >>

\* await fetch(url) and the rest of the function: a throw if the response is
\* not ok or the file has no row, else the map is built and cached. The first
\* version stamps the entry with the 'now' read when the call began, the other
\* with Date.now() at this point.
Cache_ContentResponds(k, ok, file) ==
  /\ k \in DOMAIN cache.calls
  /\ cache.calls[k].awaiting = "content"
  /\ LET call == cache.calls[k]
         rest == [ cache EXCEPT !.calls = Without(@, k) ]
         dataMap == Lib_dataMap(SourceFile(file))
         timestamp == IF cache.impl = "lib" THEN call.now ELSE cache.now
     IN cache' = IF ~ok \/ file = "F_none" THEN Settled(rest, "thrown", EmptyMap)
                 ELSE Settled([ rest EXCEPT !.dataCache =
                                  MapSet(@, call.cacheKey,
                                         [ dataMap |-> dataMap, timestamp |-> timestamp ]) ],
                              "populated", dataMap)
  /\ UNCHANGED << validation, table, page, lookup >>

\* Time passes.
Cache_Tick ==
  /\ cache.impl # "none"
  /\ cache.now < MaxTicks * TickMs
  /\ cache' = [ cache EXCEPT !.now = @ + TickMs ]
  /\ UNCHANGED << validation, table, page, lookup >>

CacheNext ==
  \/ Cache_Load
  \/ \E url \in { "", "custom" } : Cache_Call(url)
  \/ \E k \in 1 .. MaxCalls, ok \in BOOLEAN : Cache_ApiResponds(k, ok)
  \/ \E k \in 1 .. MaxCalls, ok \in BOOLEAN, file \in SourceFileIds :
       Cache_ContentResponds(k, ok, file)
  \/ Cache_Tick

CacheSpec == Init /\ [][CacheNext]_vars
(***************************************************************************)
(* The validation page: selecting a file uploads it (Home)                 *)
(***************************************************************************)
\* The uploads that can be awaiting their response at once.
MaxUploads == 2

\* The files the user can pick; "" stands for null.
Files == { "A", "B" }

\* result.data (newBlob.url): the URL the upload service returns for a file.
UploadedUrl(file) == IF file = "A" THEN "url_A" ELSE "url_B"

\* useEffect(..., [toValidateFileUrl]): runs when the URL has changed.
ShowPreviewEffect(before, after) ==
  IF after.toValidateFileUrl # before.toValidateFileUrl
  THEN [ after EXCEPT !.showPreview = (after.toValidateFileUrl # "") ]
  ELSE after

\* handleFileSelectAndUpload(file) up to 'await fetch(...)'.
handleFileSelectAndUpload(p, file) ==
  LET cleared == [ p EXCEPT !.toValidateFile = file, !.toValidateFileUrl = "" ]
  IN IF file = "" THEN cleared
     ELSE [ cleared EXCEPT !.isUploadingValidation = TRUE, !.uploads = Append(@, file) ]

\* handleFileSelectAndUpload from the response of the upload of 'file' on: the
\* URL is set, or the catch clears the selection; finally the flag is reset.
UploadSettled(p, ok, file) ==
  [ (IF ok THEN [ p EXCEPT !.toValidateFileUrl = UploadedUrl(file) ]
           ELSE [ p EXCEPT !.toValidateFile = "" ])
    EXCEPT !.isUploadingValidation = FALSE ]

\* FileUploader, rendered while !showPreview: a file is picked or dropped, or
\* the file shown is removed (onFileSelect(null)).
Page_Select(file) ==
  /\ ~page.showPreview
  /\ file = "" => page.toValidateFile # ""
  /\ file # "" => Len(page.uploads) < MaxUploads
  /\ page' = ShowPreviewEffect(page, handleFileSelectAndUpload(page, file))
  /\ UNCHANGED << validation, table, cache, lookup >>

\* The upload at position k of those awaited responds.
Page_UploadResponds(k, ok) ==
  /\ k \in DOMAIN page.uploads
  /\ page' = ShowPreviewEffect(page,
               UploadSettled([ page EXCEPT !.uploads = Without(@, k) ],
                             ok, page.uploads[k]))
  /\ UNCHANGED << validation, table, cache, lookup >>

\* 'Change File' of the preview card: handleEditFiles.
Page_EditFiles ==
  /\ page.showPreview /\ ~page.isLoading
  /\ page' = [ page EXCEPT !.showPreview = FALSE ]
  /\ UNCHANGED << validation, table, cache, lookup >>

\* 'Start Validation' of the preview card, disabled while isUploadingValidation
\* || isLoading: handleValidation up to 'await fetch('/api/validate', ...)'.
Page_Validate ==
  /\ page.showPreview /\ ~page.isLoading
  /\ ~page.isUploadingValidation
  /\ page.toValidateFileUrl # ""
  /\ page' = [ page EXCEPT !.isLoading = TRUE,
                           !.request = [ toValidateUrl |-> page.toValidateFileUrl,
                                         file |-> page.toValidateFile ] ]
  /\ UNCHANGED << validation, table, cache, lookup >>

\* The validate request is answered: finally setIsLoading(false).
Page_Validated ==
  /\ page.isLoading
  /\ page' = [ page EXCEPT !.isLoading = FALSE ]
  /\ UNCHANGED << validation, table, cache, lookup >>

PageNext ==
  \/ \E file \in Files \cup { "" } : Page_Select(file)
  \/ \E k \in 1 .. MaxUploads, ok \in BOOLEAN : Page_UploadResponds(k, ok)
  \/ Page_EditFiles
  \/ Page_Validate
  \/ Page_Validated

PageSpec == Init /\ [][PageNext]_vars
(***************************************************************************)
(* The lookup handler (app/api/lookup/route.ts)                            *)
(***************************************************************************)
\* The most items of body.lookups.
MaxLookups == 2

\* The lookup items of the model, by name: { ssid, nameToVerify }.
LookupItem(id) ==
  CASE id = "L_same" -> [ ssid |-> Str(<< "A","1" >>), nameToVerify |-> Str(<< "A","l"," ","B","o" >>) ]
    [] id = "L_other" -> [ ssid |-> Str(<< " ","a","1"," " >>), nameToVerify |-> Str(<< "C","y"," ","D","i" >>) ]
    [] id = "L_noname" -> [ ssid |-> Str(<< "A","1" >>), nameToVerify |-> Undefined ]
    [] id = "L_blank" -> [ ssid |-> Str(<< "A","1" >>), nameToVerify |-> Str(<< " "," " >>) ]
    [] id = "L_unknown" -> [ ssid |-> Str(<< "Z","9" >>), nameToVerify |-> Str(<< "A","l"," ","B","o" >>) ]
    [] id = "L_nameless" -> [ ssid |-> Str(<< "A","3" >>), nameToVerify |-> Str(<< "A","l"," ","B","o" >>) ]
    [] id = "L_nossid" -> [ ssid |-> Undefined, nameToVerify |-> Null ]
    [] id = "L_number" -> [ ssid |-> Str(<< "A","1" >>), nameToVerify |-> Num(5) ]

LookupItemIds ==
  { "L_same", "L_other", "L_noname", "L_blank", "L_unknown", "L_nameless",
    "L_nossid", "L_number" }

\* value || fallback
OrElse(value, fallback) ==
  IF IsNullish(value) \/ value = Str(<< >>) \/ value = Num(0) THEN fallback ELSE value

\* nameSimilarity >= 90 ? 'Match' : 'Mismatch', with > for >=.
Lookup_status_above(nameSimilarity) == IF nameSimilarity > 90 THEN "Match" ELSE "Mismatch"

\* nameSimilarity >= 90 ? 'Match' : 'Mismatch'
Lookup_status(nameSimilarity) == IF nameSimilarity >= 90 THEN "Match" ELSE "Mismatch"

\* The body of 'for (const item of lookups)': the result pushed, or a throw
\* (trim called on a name that is not a string, or the similarity provider).
Lookup_item(item, dataSource, d) ==
  LET normalizedSsid == normalize(item.ssid)
      name == item.nameToVerify
      pushed(r) == [ thrown |-> FALSE, result |-> r ]
      fault == [ thrown |-> TRUE, result |-> << >> ]
  IN IF normalizedSsid \notin DOMAIN dataSource
     THEN pushed([ ssid |-> item.ssid, nameToVerify |-> OrElse(name, Str(<< "N","/","A" >>)),
                   correctNameInSystem |-> Str(<< "-","-","-" >>), nameSimilarity |-> Undefined,
                   status |-> "Not Found" ])
     ELSE LET correctName == Lib_extractFullName(EntryOf(dataSource[normalizedSsid]))
          IN IF OrElse(name, Null) = Null
             THEN pushed([ ssid |-> item.ssid, nameToVerify |-> Str(<< "N","/","A" >>),
                           correctNameInSystem |-> OrElse(Str(correctName), Str(<< "-","-","-" >>)),
                           nameSimilarity |-> Undefined, status |-> "Lookup Success" ])
             ELSE IF name.t # "string" THEN fault
             ELSE IF trim(name.s) = << >>
             THEN pushed([ ssid |-> item.ssid, nameToVerify |-> Str(<< "N","/","A" >>),
                           correctNameInSystem |-> OrElse(Str(correctName), Str(<< "-","-","-" >>)),
                           nameSimilarity |-> Undefined, status |-> "Lookup Success" ])
             ELSE LET ratio == token_set_ratio(name.s, correctName, d)
                  IN IF ratio.thrown THEN fault
                     ELSE pushed([ ssid |-> item.ssid, nameToVerify |-> name,
                                   correctNameInSystem |-> OrElse(Str(correctName), Str(<< "-","-","-" >>)),
                                   nameSimilarity |-> Num(ratio.v),
                                   status |-> Lookup_status(ratio.v) ])

\* The loop over lookups: the results, or the throw that ends it.
RECURSIVE Lookup_loop(_, _, _, _)
Lookup_loop(lookups, dataSource, d, pushed) ==
  IF lookups = << >> THEN [ thrown |-> FALSE, results |-> pushed ]
  ELSE LET step == Lookup_item(LookupItem(Head(lookups)), dataSource, d)
       IN IF step.thrown THEN [ thrown |-> TRUE, results |-> << >> ]
          ELSE Lookup_loop(Tail(lookups), dataSource, d, Append(pushed, step.result))

\* POST to 'await getDataSource(customSourceUrl)': the body's lookups, 400 if
\* they are not a non-empty array.
Lookup_Receive ==
  /\ lookup.pc = "idle"
  /\ \E lookups \in SeqsUpTo(LookupItemIds, MaxLookups), d \in SimDiffOutcomes :
       lookup' = IF lookups = << >>
                 THEN [ NoLookup EXCEPT !.pc = "done", !.status = 400 ]
                 ELSE [ NoLookup EXCEPT !.pc = "awaiting", !.lookups = lookups, !.simDiff = d ]
  /\ UNCHANGED << validation, table, cache, page >>

\* getDataSource settles: its map, or a throw. The loop and the response
\* follow without another await.
Lookup_Resolve ==
  /\ lookup.pc = "awaiting"
  /\ \E ok \in BOOLEAN, file \in SourceFileIds :
       LET dataSource == Lib_dataMap(SourceFile(file))
           loop == Lookup_loop(lookup.lookups, dataSource, lookup.simDiff, << >>)
       IN lookup' = IF ~ok \/ file = "F_none" \/ loop.thrown
                    THEN [ lookup EXCEPT !.pc = "done", !.status = 500 ]
                    ELSE [ lookup EXCEPT !.pc = "done", !.status = 200,
                                         !.dataSource = dataSource,
                                         !.results = loop.results ]
  /\ UNCHANGED << validation, table, cache, page >>

\* The response is sent; the next request starts afresh.
Lookup_Return ==
  /\ lookup.pc = "done"
  /\ lookup' = NoLookup
  /\ UNCHANGED << validation, table, cache, page >>

LookupNext == Lookup_Receive \/ Lookup_Resolve \/ Lookup_Return

LookupSpec == Init /\ [][LookupNext]_vars
(***************************************************************************)
(* Properties. The current request's rows, as its handler resolves them    *)
(***************************************************************************)
\* Candidate i of the data rows: its SSID, NIN and full name.
Candidate(i) ==
  IF handler = "url"
  THEN [ ssid |-> Url_fields[entries[i]].ssid,
         nin |-> Url_fields[entries[i]].nin,
         name |-> Url_fields[entries[i]].name ]
  ELSE [ ssid |-> Payload_fields[entriesHeaderRow][entries[i]].entrySsid,
         nin |-> Payload_fields[entriesHeaderRow][entries[i]].entryNin,
         name |-> Payload_fields[entriesHeaderRow][entries[i]].name ]

\* Source record k: the SSID and NIN it is indexed under and compared on,
\* and its full name.
SourceRecord(k) ==
  IF handler = "url"
  THEN [ indexSsid |-> Url_fields[source[k]].ssid,
         ssid |-> Url_fields[source[k]].ssid,
         nin |-> Url_fields[source[k]].nin,
         name |-> Url_fields[source[k]].name ]
  ELSE [ indexSsid |-> Payload_fields[sourceHeaderRow][source[k]].indexSsid,
         ssid |-> Payload_fields[sourceHeaderRow][source[k]].shortSsid,
         nin |-> Payload_fields[sourceHeaderRow][source[k]].shortNin,
         name |-> Payload_fields[sourceHeaderRow][source[k]].name ]

\* The source positions gathered for candidate i from the two indices.
Gathered(i) == Gather(Candidate(i).ssid, Candidate(i).nin, sourceBySSID, sourceByNIN)

\* The try block of getMatchStatus on candidate i, under provider outcome d.
EvaluateOf(i, d) ==
  IF handler = "url"
  THEN Url_evaluate(Url_rows(<< entries[i] >>)[1], Url_rows(source),
                    sourceBySSID, sourceByNIN, d)
  ELSE Payload_evaluate(Payload_rows(entriesHeaderRow, << entries[i] >>)[1],
                        Payload_rows(sourceHeaderRow, source),
                        sourceBySSID, sourceByNIN, d)

\* The source position the scoring loop chose for candidate i.
BestOf(i) ==
  IF handler = "url"
  THEN Url_bestMatch(Url_rows(<< entries[i] >>)[1], Gathered(i), Url_rows(source), simDiff)
  ELSE Payload_bestMatch(Payload_rows(entriesHeaderRow, << entries[i] >>)[1], Gathered(i),
                         Payload_rows(sourceHeaderRow, source), simDiff)

\* Candidate i went through to the comparison with a best match: it has a
\* name and an identifier, records were gathered, no fault was raised and the
\* chosen record has a name.
Compared(i) ==
  /\ Candidate(i).name # << >>
  /\ Candidate(i).ssid # << >> \/ Candidate(i).nin # << >>
  /\ Gathered(i) # << >>
  /\ ~EvaluateOf(i, simDiff).thrown
  /\ SourceRecord(BestOf(i)).name # << >>

Answered == pc = "done" /\ response.status = 200

(***************************************************************************)
(* C1                                                                      *)
(***************************************************************************)
\* C1: for every accepted request the results array is as long as the
\* candidate array the caller supplied, and result i is built from supplied
\* candidate i: no supplied candidate is dropped, header detection included.
C1_Completeness ==
  Answered =>
    /\ Len(response.results) = Len(suppliedEntries)
    /\ \A i \in DOMAIN response.results : response.results[i].entry = suppliedEntries[i]

(***************************************************************************)
(* C2                                                                      *)
(***************************************************************************)
\* C2: in every successful run valid + invalid + partialMatch = total =
\* the number of results, and every result's status is one of Valid, Invalid
\* and Partial Match.
C2_SummaryConsistent ==
  Answered =>
    /\ response.summary.valid + response.summary.invalid + response.summary.partialMatch
         = response.summary.total
    /\ response.summary.total = Len(response.results)
    /\ \A i \in DOMAIN response.results :
         response.results[i].status \in { "Valid", "Invalid", "Partial Match" }

\* A successful run of several results whose statuses differ: one Partial
\* Match beside one Valid or Invalid result.
C2_Witness ==
  /\ Answered
  /\ response.summary.total > 1
  /\ response.summary.partialMatch > 0
  /\ response.summary.valid > 0 \/ response.summary.invalid > 0

(***************************************************************************)
(* C3                                                                      *)
(***************************************************************************)
\* C3: a fault raised while one candidate is evaluated (the similarity
\* provider throws) does not leave getMatchStatus and does not end the
\* request: that candidate's result is Invalid and carries the fault's
\* message, and every candidate whose evaluation raises no fault has the
\* result it has under any provider that does not throw.
C3_FaultIsolated ==
  /\ response.status # 500
  /\ \A i \in DOMAIN results :
       IF EvaluateOf(i, simDiff).thrown
       THEN /\ results[i].status = "Invalid"
            /\ results[i].kind = "System error"
            /\ results[i].msg = FaultMessage
       ELSE /\ results[i] = ProcessedEntry(entries[i], EvaluateOf(i, simDiff))
            /\ simDiff.thrown =>
                 \A d \in SimDiffOutcomes \ { Thrown } :
                    results[i] = ProcessedEntry(entries[i], EvaluateOf(i, d))

\* A batch answered in full in which one candidate's evaluation faulted and
\* a later candidate was still matched against a source record.
C3_Witness ==
  /\ Answered
  /\ \E i, j \in DOMAIN results :
       /\ i < j
       /\ results[i].kind = "System error"
       /\ results[i].msg = FaultMessage
       /\ results[j].status \in { "Valid", "Partial Match" }

(***************************************************************************)
(* C4                                                                      *)
(***************************************************************************)
\* Agreement on one identifier, under the policy of the request's handler.
Agrees(entryId, srcId) ==
  IF handler = "url" THEN Url_agrees(entryId, srcId) ELSE Payload_agrees(entryId, srcId)

\* The provider's similarity of candidate i's name and its best match's name.
SimilarityOf(i) ==
  token_set_ratio(Candidate(i).name, SourceRecord(BestOf(i)).name, simDiff).v

\* C4: a candidate with a name for which a best match with a name was chosen
\* is Valid if and only if SSID agreement, NIN agreement and a name
\* similarity of at least 90 all hold, and is Partial Match otherwise, never
\* Invalid; a similarity of 90 counts as agreement and 89 does not.
C4_ValidIffAllAgree ==
  \A i \in DOMAIN results :
     Compared(i) =>
       results[i].status =
         IF /\ Agrees(Candidate(i).ssid, SourceRecord(BestOf(i)).ssid)
            /\ Agrees(Candidate(i).nin, SourceRecord(BestOf(i)).nin)
            /\ SimilarityOf(i) >= 90
         THEN "Valid" ELSE "Partial Match"

\* One batch with a candidate Valid at a similarity of exactly 90; the same
\* candidate is Partial Match at 89 by the formula above.
C4_Witness ==
  \E i \in DOMAIN results :
     /\ Compared(i)
     /\ SimilarityOf(i) = 90
     /\ results[i].status = "Valid"
     /\ results[i].sim = 90

(***************************************************************************)
(* C5                                                                      *)
(***************************************************************************)
NoMatchReturned(r) ==
  r.matchedName = << >> /\ r.correctSSID = << >> /\ r.correctNIN = << >>

\* C5: a candidate whose full name resolves to the empty string is Invalid
\* for its missing name whatever its identifiers hit; a candidate with a name
\* and neither identifier is Invalid for its missing identifiers whatever
\* the source; neither returns a matched name, SSID or NIN; and the missing
\* name takes precedence when both hold.
C5_MissingFields ==
  \A i \in DOMAIN results :
     /\ Candidate(i).name = << >> =>
          /\ results[i].status = "Invalid"
          /\ results[i].kind = "Missing name field"
          /\ NoMatchReturned(results[i])
     /\ (Candidate(i).name # << >> /\ Candidate(i).ssid = << >> /\ Candidate(i).nin = << >>) =>
          /\ results[i].status = "Invalid"
          /\ results[i].kind = "Missing both SSID and NIN"
          /\ NoMatchReturned(results[i])

\* One batch with a nameless candidate whose SSID is indexed and a named
\* candidate without identifiers.
C5_Witness ==
  \E i, j \in DOMAIN results :
     /\ Candidate(i).name = << >>
     /\ Candidate(i).ssid \in DOMAIN sourceBySSID
     /\ results[i].kind = "Missing name field"
     /\ Candidate(j).name # << >>
     /\ Candidate(j).ssid = << >> /\ Candidate(j).nin = << >>
     /\ results[j].kind = "Missing both SSID and NIN"

(***************************************************************************)
(* C6                                                                      *)
(***************************************************************************)
\* C6: a candidate with a name and at least one identifier is Invalid with
\* 'No record found' if and only if its SSID is no key of the SSID index and
\* its NIN is no key of the NIN index; such a result names no source record,
\* so no record is selected on its name alone.
C6_NoRecordIffNoHit ==
  \A i \in DOMAIN results :
     (Candidate(i).name # << >> /\ (Candidate(i).ssid # << >> \/ Candidate(i).nin # << >>)) =>
       /\ results[i].kind = "No record found"
            <=> /\ Candidate(i).ssid \notin DOMAIN sourceBySSID
                /\ Candidate(i).nin \notin DOMAIN sourceByNIN
       /\ results[i].kind = "No record found" =>
            results[i].status = "Invalid" /\ NoMatchReturned(results[i])

\* A candidate that hits neither index although a source record carries
\* exactly its name.
C6_Witness ==
  \E i \in DOMAIN results :
     /\ results[i].kind = "No record found"
     /\ \E k \in DOMAIN source : SourceRecord(k).name = Candidate(i).name

(***************************************************************************)
(* C7                                                                      *)
(***************************************************************************)
\* C7: in the URL-based handler the SSID disagrees with the best match only
\* when both SSIDs are non-empty and different, and likewise the NIN; an
\* identifier absent on either side agrees.
C7_LenientAgreement ==
  handler = "url" =>
    \A i \in DOMAIN results :
       Compared(i) =>
         /\ (\E m \in DOMAIN results[i].issues : results[i].issues[m] = "SSID mismatch")
              <=> /\ Candidate(i).ssid # << >>
                  /\ SourceRecord(BestOf(i)).ssid # << >>
                  /\ Candidate(i).ssid # SourceRecord(BestOf(i)).ssid
         /\ (\E m \in DOMAIN results[i].issues : results[i].issues[m] = "NIN mismatch")
              <=> /\ Candidate(i).nin # << >>
                  /\ SourceRecord(BestOf(i)).nin # << >>
                  /\ Candidate(i).nin # SourceRecord(BestOf(i)).nin

\* A candidate that supplies an SSID and no NIN, Valid against a source
\* record that has a NIN.
C7_Witness ==
  /\ handler = "url"
  /\ \E i \in DOMAIN results :
       /\ Compared(i)
       /\ Candidate(i).nin = << >>
       /\ SourceRecord(BestOf(i)).nin # << >>
       /\ results[i].status = "Valid"

(***************************************************************************)
(* C8                                                                      *)
(***************************************************************************)
\* The positions of the source records indexed under an SSID.
PositionsOf(ssid) == { k \in DOMAIN source : SourceRecord(k).indexSsid = ssid }

\* C8: when several source records have the same non-empty normalized SSID
\* the SSID index keeps the first of them in source order and never
\* overwrites it, so a lookup of that SSID resolves to the first record.
C8_FirstSeenWins ==
  \A ssid \in DOMAIN sourceBySSID : sourceBySSID[ssid] = MinOf(PositionsOf(ssid))

(***************************************************************************)
(* C9                                                                      *)
(***************************************************************************)
\* The source records whose SSID an earlier record already has.
DuplicateOccurrences ==
  { k \in DOMAIN source :
      /\ SourceRecord(k).indexSsid # << >>
      /\ \E j \in 1 .. (k - 1) : SourceRecord(j).indexSsid = SourceRecord(k).indexSsid }

\* The warnings the response carries (ApiResponse.sourceFileWarnings).
ResponseWarnings ==
  IF "sourceFileWarnings" \in DOMAIN response THEN response.sourceFileWarnings ELSE << >>

\* C9: every duplicate normalized SSID met while the source is indexed gives
\* a warning returned with the summary, one for each duplicate occurrence,
\* and the run still ends with its results.
C9_DuplicateWarnings ==
  pc = "done" =>
    /\ response.status = 200 \/ response.status = 400
    /\ response.status = 200 => Len(ResponseWarnings) = Cardinality(DuplicateOccurrences)

(***************************************************************************)
(* C10                                                                     *)
(***************************************************************************)
\* The score of the claim, in fifths of a point, of source record k for
\* candidate i: 40 for equal non-empty SSIDs, 40 for equal non-empty NINs,
\* 0.2 times the name similarity.
ClaimedScore(i, k) ==
  ScoreFifths(Candidate(i).ssid, Candidate(i).nin,
              SourceRecord(k).indexSsid, SourceRecord(k).nin, SourceRecord(k).name,
              token_set_ratio(Candidate(i).name, SourceRecord(k).name, simDiff).v)

\* The gathered record of the highest score, the first gathered among equals.
ClaimedBest(i) ==
  LET g == Gathered(i)
      m == CHOOSE m \in DOMAIN g :
             /\ \A n \in DOMAIN g : ClaimedScore(i, g[n]) <= ClaimedScore(i, g[m])
             /\ \A n \in 1 .. (m - 1) : ClaimedScore(i, g[n]) < ClaimedScore(i, g[m])
  IN g[m]

\* C10: among the records gathered for a candidate the chosen best match has
\* the highest score = 40 for equal non-empty SSIDs + 40 for equal non-empty
\* NINs + 0.2 x name similarity, and of two records of equal score the one
\* gathered first is chosen; the result names that record.
C10_BestMatchMaximisesScore ==
  \A i \in DOMAIN results :
     Compared(i) =>
       /\ BestOf(i) = ClaimedBest(i)
       /\ results[i].matchedName = SourceRecord(ClaimedBest(i)).name

(***************************************************************************)
(* A whole request as a function of its inputs                             *)
(***************************************************************************)
\* The index the indexing loop leaves: every non-empty key set, in order.
RECURSIVE IndexedFrom(_, _, _)
IndexedFrom(keys, k, map) ==
  IF k > Len(keys) THEN map
  ELSE IndexedFrom(keys, k + 1,
                   IF keys[k] # << >> THEN MapSet(map, keys[k], k) ELSE map)

Indexed(keys) == IndexedFrom(keys, 1, EmptyMap)

\* The URL-based handler's response to the decoded datasets src and ents.
Url_run(src, ents, d) ==
  LET rows == Url_rows(src)
      bySSID == Indexed([ k \in DOMAIN rows |-> rows[k].ssid ])
      byNIN == Indexed([ k \in DOMAIN rows |-> rows[k].nin ])
      matched == [ i \in DOMAIN ents |->
                     Url_getMatchStatus(Url_rows(<< ents[i] >>)[1], rows, bySSID, byNIN, d) ]
      thrown == { i \in DOMAIN ents : matched[i].thrown }
      rs == [ i \in DOMAIN ents |-> ProcessedEntry(ents[i], matched[i]) ]
  IN IF thrown # { }
     THEN [ status |-> 500, error |-> "Internal Server Error",
            details |-> matched[MinOf(thrown)].msg ]
     ELSE [ status |-> 200, results |-> rs, summary |-> Summary(rs) ]

\* The payload-based handler's response to the arrays src and ents.
Payload_run(src, ents, d) ==
  LET v == validateRequestPayload(src, ents)
      rows == Payload_rows(v.sourceHeaderRow, v.source)
      bySSID == Indexed([ k \in DOMAIN rows |-> rows[k].indexSsid ])
      byNIN == Indexed([ k \in DOMAIN rows |-> rows[k].indexNin ])
      matched == [ i \in DOMAIN v.entries |->
                     Payload_getMatchStatus(Payload_rows(v.entriesHeaderRow, << v.entries[i] >>)[1],
                                            rows, bySSID, byNIN, d) ]
      rs == [ i \in DOMAIN v.entries |->
                IF matched[i].thrown THEN ProcessingError(v.entries[i], matched[i].msg)
                ELSE ProcessedEntry(v.entries[i], matched[i]) ]
  IN IF ~v.ok
     THEN [ status |-> 400, error |-> "Invalid payload", details |-> v.details ]
     ELSE [ status |-> 200, results |-> rs, summary |-> Summary(rs),
            processingErrors |-> Cardinality({ i \in DOMAIN rs : matched[i].thrown }) ]

\* The response of the request's handler to other datasets.
Run(src, ents, d) ==
  IF handler = "url" THEN Url_run(src, ents, d) ELSE Payload_run(src, ents, d)

\* The status of a response and the Match Status of each of its results.
Outcome(r) ==
  [ status |-> r.status,
    statuses |-> IF r.status = 200
                 THEN [ i \in DOMAIN r.results |-> r.results[i].status ]
                 ELSE << >> ]

(***************************************************************************)
(* C11                                                                     *)
(***************************************************************************)
\* The entry that differs from id in the letter case and the surrounding
\* blanks of its SSID, NIN and name values only.
Respelled(id) ==
  CASE id = "S1" -> "S6"
    [] id = "S6" -> "S1"
    [] id = "E7" -> "E8"
    [] id = "E8" -> "E7"
    [] id = "X1" -> "X2"
    [] id = "X2" -> "X1"
    [] OTHER -> id

\* The datasets that differ from rows in such values of any of its records.
Respellings(rows) ==
  { [ i \in DOMAIN rows |-> IF i \in T THEN Respelled(rows[i]) ELSE rows[i] ] :
      T \in SUBSET (DOMAIN rows) }

\* C11: changing only the letter case or the leading and trailing blanks of
\* SSID, NIN or name values, in any source record or any candidate record,
\* changes no candidate's Match Status.
C11_NormalizationInvariant ==
  pc = "done" =>
    \A src \in Respellings(suppliedSource), ents \in Respellings(suppliedEntries) :
       Outcome(Run(src, ents, simDiff)) = Outcome(response)

(***************************************************************************)
(* C12                                                                     *)
(***************************************************************************)
\* The entry that has the columns of id in another order.
Reordered(id) ==
  CASE id = "P1" -> "P2"
    [] id = "P2" -> "P1"
    [] OTHER -> id

\* The fields the request's handler resolves from a candidate row and from
\* a source row.
ResolvedEntry(id) ==
  IF handler = "url" THEN Url_fields[id] ELSE Payload_fields[entriesHeaderRow][id]

ResolvedSource(id) ==
  IF handler = "url" THEN Url_fields[id] ELSE Payload_fields[sourceHeaderRow][id]

\* C12: permuting the columns of an entry changes no value the field
\* resolver returns for it, also when several of its keys normalize to an
\* accepted name.
C12_ColumnOrderInvariant ==
  /\ \A i \in DOMAIN entries : ResolvedEntry(Reordered(entries[i])) = ResolvedEntry(entries[i])
  /\ \A k \in DOMAIN source : ResolvedSource(Reordered(source[k])) = ResolvedSource(source[k])

(***************************************************************************)
(* C13                                                                     *)
(***************************************************************************)
\* The normalized value an entry has in the column of the given name.
ColumnValue(id, column) == normalize(Get(EntryOf(id), column))

SocialSecurityIdColumn ==
  << "S","o","c","i","a","l"," ","S","e","c","u","r","i","t","y"," ","I","D" >>

SsnColumn == << "s","s","n" >>

\* C13: a source column named 'Social Security ID' and a candidate column
\* named 'ssn' both resolve to the SSID: once the source is indexed every
\* source record is indexed under its value in that column, and a candidate
\* with a name that carries the same value in its column is compared with a
\* source record instead of finding none.
C13_SynonymColumns ==
  pc \in { "matching", "done" } =>
    /\ \A k \in DOMAIN source :
         ColumnValue(source[k], SocialSecurityIdColumn) # << >> =>
           ColumnValue(source[k], SocialSecurityIdColumn) \in DOMAIN sourceBySSID
    /\ \A i \in DOMAIN results :
         ( /\ ColumnValue(entries[i], SsnColumn) # << >>
           /\ ResolvedEntry(entries[i]).name # << >>
           /\ \E k \in DOMAIN source :
                ColumnValue(source[k], SocialSecurityIdColumn) = ColumnValue(entries[i], SsnColumn) )
         => results[i].kind # "No record found"

(***************************************************************************)
(* C14                                                                     *)
(***************************************************************************)
\* C14: a run's response (the statuses, reasons and matched values of its
\* results, in order, and its summary counts) is the handler's response to
\* its source and candidate datasets alone, so two runs on identical
\* datasets answer identically, whatever requests were served before.
C14_Idempotent ==
  pc = "done" => response = Run(suppliedSource, suppliedEntries, simDiff)

\* A request answered with a matched candidate and a rejected one, its index
\* built from several source records.
C14_Witness ==
  /\ Answered
  /\ Len(source) > 1
  /\ \E i, j \in DOMAIN response.results :
       /\ response.results[i].status = "Valid"
       /\ response.results[j].status = "Invalid"

(***************************************************************************)
(* C15                                                                     *)
(***************************************************************************)
\* A value that is no array, is empty, is longer than its limit or has an
\* element that is no non-null, non-array object.
Unacceptable(value, limit) ==
  \/ ~value.isArray
  \/ value.length = 0
  \/ value.length > limit
  \/ \E i \in DOMAIN value.rows : value.rows[i] \in NonObjects

Malformed(body) ==
  \/ Unacceptable(body.source, MAX_SOURCE_LIMIT)
  \/ Unacceptable(body.entries, MAX_ENTRIES_LIMIT)

\* The values that hand the given rows to the handler: no array at all, the
\* array of these rows, an array beyond its limit that starts with them.
ValuesWith(rows, limit) ==
  { ArrayOf(rows), ArrayBeyond(rows, limit) }
    \cup (IF rows = << >> THEN { NotAnArray } ELSE { })

\* The bodies whose source and entries hand over the given rows.
BodiesWith(sourceRows, entryRows) ==
  [ source : ValuesWith(sourceRows, MAX_SOURCE_LIMIT),
    entries : ValuesWith(entryRows, MAX_ENTRIES_LIMIT) ]

\* C15: a request whose source or entries is not an array, is empty, exceeds
\* its size limit or contains an element that is not a non-null, non-array
\* object is answered 400 'Invalid payload' and ends there: no index is
\* built, no candidate is evaluated and the response has neither results
\* nor a summary. A step receives a body only if it records the body's rows,
\* so the bodies of a step are among those with the rows the step records.
C15_MalformedRejected ==
  [][ \A body \in BodiesWith(suppliedSource', suppliedEntries'), d \in SimDiffOutcomes :
        (Malformed(body) /\ Payload_RequestBody(body, d)) =>
          /\ pc' = "done"
          /\ response'.status = 400
          /\ response'.error = "Invalid payload"
          /\ DOMAIN response' = { "status", "error", "details" }
          /\ results' = << >>
          /\ sourceBySSID' = EmptyMap
          /\ sourceByNIN' = EmptyMap ]_vars

\* A request refused for an element of entries that is no object, its
\* source being an array of records.
C15_Witness ==
  /\ handler = "payload"
  /\ pc = "done"
  /\ response.status = 400
  /\ response.details = "Invalid entry"
  /\ Len(suppliedSource) > 0
  /\ results = << >>


----------------------------------------------------------------------------
(***************************************************************************)
(* Header-row detection                                                    *)
(***************************************************************************)
\* The rows a scan reads (positions counted from 1).
Examined(rows) == 1 .. Minimum(HEADER_SCAN_ROWS, Len(rows))

\* The rows read and not skipped.
Eligible(impl, rows) ==
  { i \in Examined(rows) : ~HeaderRowFacts[impl][rows[i]].skipped }

MatchesAt(impl, rows, i) == HeaderRowFacts[impl][rows[i]].keywordMatches

\* The greatest keyword count among the eligible rows, 0 if there is none.
BestMatches(impl, rows) ==
  IF Eligible(impl, rows) = {} THEN 0
  ELSE LET i == CHOOSE i \in Eligible(impl, rows) :
                  \A j \in Eligible(impl, rows) :
                    MatchesAt(impl, rows, j) <= MatchesAt(impl, rows, i)
       IN MatchesAt(impl, rows, i)

Scanned == headerScan # NoScan

NameColumn == << "N","a","m","e" >>
FirstNameColumn == << "f","i","r","s","t","n","a","m","e" >>
MiddleNameColumn == << "m","i","d","d","l","e","n","a","m","e" >>
LastNameColumn == << "l","a","s","t","n","a","m","e" >>

\* The entries whose name, if any, is in the columns Name, firstname, middlename
\* and lastname.
PlainNameColumns(id) ==
  \A i \in DOMAIN EntryOf(id) :
    EntryOf(id)[i].k \in { << "S","S","I","D" >>, << "N","I","N" >>, NameColumn,
                           FirstNameColumn, MiddleNameColumn, LastNameColumn }

\* The trimmed value an entry has in the column of the given name.
TrimmedColumnValue(id, column) ==
  IF IsNullish(Get(EntryOf(id), column)) THEN << >>
  ELSE trim(String(Get(EntryOf(id), column)))

\* The name the four values give: the full name unless it is empty, else the
\* parts that are not empty, in the order first, middle, last, one blank between.
NameFrom(full, first, middle, last) ==
  IF full # << >> THEN full
  ELSE JoinSpace(SelectSeq(<< first, middle, last >>, LAMBDA part : part # << >>))

NameAsClaimed(id, value(_, _)) ==
  NameFrom(value(id, NameColumn), value(id, FirstNameColumn),
           value(id, MiddleNameColumn), value(id, LastNameColumn))

NoNameValue(id) ==
  \A column \in { NameColumn, FirstNameColumn, MiddleNameColumn, LastNameColumn } :
    TrimmedColumnValue(id, column) = << >>

\* C17: the name resolved for an entry is the value of its full-name column
\* whenever that is not empty; otherwise it is the non-empty first, middle and
\* last name parts joined in that order by single blanks; it is empty exactly
\* when none of the four columns has a value. This holds of the name each
\* validate handler resolves for its rows and of the name lib/dataSource.ts
\* resolves for the same entries (trimmed, in the case it was written).
C17_NameResolution ==
  /\ \A i \in DOMAIN entries :
       PlainNameColumns(entries[i]) =>
         /\ ResolvedEntry(entries[i]).name = NameAsClaimed(entries[i], ColumnValue)
         /\ ResolvedEntry(entries[i]).name = << >> <=> NoNameValue(entries[i])
         /\ Lib_names[entries[i]] = NameAsClaimed(entries[i], TrimmedColumnValue)
         /\ Lib_names[entries[i]] = << >> <=> NoNameValue(entries[i])
  /\ \A k \in DOMAIN source :
       PlainNameColumns(source[k]) =>
         /\ ResolvedSource(source[k]).name = NameAsClaimed(source[k], ColumnValue)
         /\ ResolvedSource(source[k]).name = << >> <=> NoNameValue(source[k])
         /\ Lib_names[source[k]] = NameAsClaimed(source[k], TrimmedColumnValue)
         /\ Lib_names[source[k]] = << >> <=> NoNameValue(source[k])

\* A finished run with two candidates of the kind: one Valid on its full name
\* although its parts spell another, one Valid on its first and last name with
\* a blank full name and an empty middle name.
C17_Witness ==
  /\ Answered
  /\ \E i \in DOMAIN results :
       /\ PlainNameColumns(entries[i])
       /\ ColumnValue(entries[i], NameColumn) # << >>
       /\ ColumnValue(entries[i], FirstNameColumn) # << >>
       /\ results[i].status = "Valid"
  /\ \E i \in DOMAIN results :
       /\ PlainNameColumns(entries[i])
       /\ ColumnValue(entries[i], NameColumn) = << >>
       /\ ColumnValue(entries[i], MiddleNameColumn) = << >>
       /\ ColumnValue(entries[i], LastNameColumn) # << >>
       /\ results[i].status = "Valid"

(***************************************************************************)
(* C18                                                                     *)
(***************************************************************************)
\* The candidates whose SSID an earlier candidate of the run already has.
DuplicateRequests ==
  { i \in DOMAIN entries :
      /\ Candidate(i).ssid # << >>
      /\ \E j \in 1 .. (i - 1) : Candidate(j).ssid = Candidate(i).ssid }

\* The count the summary reports (ApiResponse.summary.duplicatesInValidationFile),
\* -1 when it reports none.
ReportedDuplicates ==
  IF "duplicatesInValidationFile" \in DOMAIN response.summary
  THEN response.summary.duplicatesInValidationFile ELSE -1

\* C18: a candidate whose normalized SSID an earlier candidate of the run has
\* is Invalid as a duplicate request, with no matched record, and the summary
\* reports how many such candidates there were.
C18_DuplicateRequests ==
  Answered =>
    /\ \A i \in DuplicateRequests :
         /\ response.results[i].status = "Invalid"
         /\ response.results[i].kind = "duplicate request"
         /\ response.results[i].matchedName = << >>
    /\ DuplicateRequests # {} => ReportedDuplicates = Cardinality(DuplicateRequests)

(***************************************************************************)
(* C19                                                                     *)
(***************************************************************************)
\* The entries the request received.
InputRefs == Range(suppliedSource) \cup Range(suppliedEntries)

KeysOf(object) == { object[j].k : j \in DOMAIN object }

\* obj is an object of its own, none of the entries received, with the keys of
\* the candidate and the five output keys, each once, and with the candidate's
\* value under every key that is not an output key.
HoldsCandidate(obj, entryRef) ==
  /\ obj \in DOMAIN heap
  /\ obj \notin InputRefs
  /\ KeysOf(Content(heap[obj])) = KeysOf(EntryOf(entryRef)) \cup Range(OutputKeys)
  /\ Len(Content(heap[obj])) = Cardinality(KeysOf(Content(heap[obj])))
  /\ \A j \in DOMAIN EntryOf(entryRef) :
       EntryOf(entryRef)[j].k \notin Range(OutputKeys) =>
         Get(Content(heap[obj]), EntryOf(entryRef)[j].k) = EntryOf(entryRef)[j].v

\* C19: throughout a validation run and after it every source and candidate
\* entry received has the keys and values it came with, and every record
\* pushed on results, and every record of the payload handler's response, is a
\* new object with the candidate's fields and the five output keys.
C19_InputsUntouched ==
  pc # "idle" /\ heap # EmptyMap =>
    /\ \A ref \in InputRefs : ref \in DOMAIN heap /\ Content(heap[ref]) = EntryOf(ref)
    /\ \A i \in DOMAIN results : HoldsCandidate(ResultRefs[i], entries[i])
    /\ (Answered /\ handler = "payload") =>
         \A i \in DOMAIN entries : HoldsCandidate(ResponseRefs[i], entries[i])

\* A finished run with a candidate that came with a 'Match Status' of its own:
\* its record says Valid, the candidate still says what it said.
C19_Witness ==
  /\ Answered
  /\ \E i \in DOMAIN results :
       /\ OutputKeys[1] \in KeysOf(EntryOf(entries[i]))
       /\ results[i].status = "Valid"
       /\ Get(Content(heap[ResultRefs[i]]), OutputKeys[1]) = Str(<< "Valid" >>)
       /\ Get(Content(heap[entries[i]]), OutputKeys[1]) # Str(<< "Valid" >>)

(***************************************************************************)
(* C20                                                                     *)
(***************************************************************************)
\* One of the two has the identifier and the other has not.
OneSided(entryId, srcId) == (entryId = << >>) # (srcId = << >>)

Lists(i, issue) == \E m \in DOMAIN results[i].issues : results[i].issues[m] = issue

\* C20: in the payload-based handler an identifier agrees only when both sides
\* lack it or both have it and it is the same: a candidate compared with a
\* chosen record that has an SSID or NIN the candidate lacks, or lacks one the
\* candidate has, is Partial Match and never Valid, with the absence among its
\* issues.
C20_StrictAgreement ==
  handler = "payload" =>
    \A i \in DOMAIN results :
       Compared(i) =>
         LET e == Candidate(i)
             s == SourceRecord(BestOf(i))
         IN /\ (OneSided(e.ssid, s.ssid) \/ OneSided(e.nin, s.nin))
                 => results[i].status = "Partial Match"
            /\ results[i].status = "Valid" =>
                 /\ e.ssid = s.ssid
                 /\ e.nin = s.nin
            /\ Lists(i, "Missing SSID") <=> (e.ssid = << >> /\ s.ssid # << >>)
            /\ Lists(i, "SSID not in records") <=> (e.ssid # << >> /\ s.ssid = << >>)
            /\ Lists(i, "Missing NIN") <=> (e.nin = << >> /\ s.nin # << >>)
            /\ Lists(i, "NIN not in records") <=> (e.nin # << >> /\ s.nin = << >>)

\* A finished payload run with a candidate that lacks the SSID its record has,
\* with the NIN and the name of that record, Partial Match.
C20_Witness ==
  /\ Answered
  /\ handler = "payload"
  /\ \E i \in DOMAIN results :
       /\ Compared(i)
       /\ Candidate(i).ssid = << >>
       /\ SourceRecord(BestOf(i)).ssid # << >>
       /\ Candidate(i).nin = SourceRecord(BestOf(i)).nin
       /\ Candidate(i).name = SourceRecord(BestOf(i)).name
       /\ results[i].status = "Partial Match"

(***************************************************************************)
(* C21                                                                     *)
(***************************************************************************)
\* The scoring loop ran to its end for candidate i and chose a best match:
\* the candidate has a name and an identifier, records were gathered and no
\* fault left the loop.
BestChosen(i) ==
  /\ Candidate(i).name # << >>
  /\ Candidate(i).ssid # << >> \/ Candidate(i).nin # << >>
  /\ Gathered(i) # << >>
  /\ ~EvaluateOf(i, simDiff).thrown

\* C21: whenever the best match chosen for a candidate has no resolvable
\* name the candidate's result is Invalid for the source record's missing
\* name and carries no matched name, SSID or NIN, whatever identifiers agree;
\* a Valid or Partial Match result is never given against a nameless record.
C21_NamelessSource ==
  Answered =>
    \A i \in DOMAIN results :
       /\ (BestChosen(i) /\ SourceRecord(BestOf(i)).name = << >>) =>
            /\ results[i].status = "Invalid"
            /\ results[i].kind = "Source record missing name"
            /\ NoMatchReturned(results[i])
       /\ results[i].status \in { "Valid", "Partial Match" } =>
            /\ BestChosen(i)
            /\ SourceRecord(BestOf(i)).name # << >>
            /\ results[i].matchedName = SourceRecord(BestOf(i)).name

\* A candidate with a name whose identifier agrees with that of a nameless
\* source record, chosen although a named record was gathered too.
C21_Witness ==
  /\ Answered
  /\ \E i \in DOMAIN results :
       /\ BestChosen(i)
       /\ Len(Gathered(i)) = 2
       /\ SourceRecord(BestOf(i)).name = << >>
       /\ Candidate(i).nin = SourceRecord(BestOf(i)).nin
       /\ results[i].kind = "Source record missing name"

(***************************************************************************)
(* C22                                                                     *)
(***************************************************************************)
\* C22: for every candidate the list of gathered source records has at most
\* two elements and no record twice; a record is in the list only as the
\* SSID-index entry of the candidate's non-empty SSID or the NIN-index entry
\* of its non-empty NIN, every such entry is in the list, and an empty
\* identifier contributes nothing.
C22_GatheredRecords ==
  Answered =>
    \A i \in DOMAIN results :
       /\ Len(Gathered(i)) <= 2
       /\ \A m, n \in DOMAIN Gathered(i) : Gathered(i)[m] = Gathered(i)[n] => m = n
       /\ Range(Gathered(i)) =
            { k \in DOMAIN source :
                \/ /\ Candidate(i).ssid # << >>
                   /\ Candidate(i).ssid \in DOMAIN sourceBySSID
                   /\ sourceBySSID[Candidate(i).ssid] = k
                \/ /\ Candidate(i).nin # << >>
                   /\ Candidate(i).nin \in DOMAIN sourceByNIN
                   /\ sourceByNIN[Candidate(i).nin] = k }

\* A candidate that reaches the same source record by its SSID and by its
\* NIN: the record is gathered once.
C22_Witness ==
  /\ Answered
  /\ \E i \in DOMAIN results :
       /\ Candidate(i).ssid \in DOMAIN sourceBySSID
       /\ Candidate(i).nin \in DOMAIN sourceByNIN
       /\ sourceBySSID[Candidate(i).ssid] = sourceByNIN[Candidate(i).nin]
       /\ Gathered(i) = << sourceBySSID[Candidate(i).ssid] >>

(***************************************************************************)
(* C23                                                                     *)
(***************************************************************************)
\* The value the claim gives: the normalized value of the first key, in key
\* order, whose normalized form is that of an accepted name, a null or absent
\* value there giving the empty string; the empty string when no key is.
FirstKeyValue(entry, names, normalizeKey(_)) ==
  LET accepted == { normalizeKey(names[f]) : f \in DOMAIN names }
      keys == { i \in DOMAIN entry : normalizeKey(entry[i].k) \in accepted }
  IN IF keys = {} THEN << >> ELSE normalize(entry[MinOf(keys)].v)

\* What the request's handler resolves from a candidate row for accepted names.
FieldOf(id, names) ==
  IF handler = "url" THEN Url_extractField(EntryOf(id), names)
  ELSE Payload_extractField(EntryOf(id), names, HeaderOf(entriesHeaderRow))

\* The same under the claim.
ClaimedFieldOf(id, names) ==
  IF handler = "url" THEN FirstKeyValue(EntryOf(id), names, Url_normalizeKey)
  ELSE FirstKeyValue(EntryOf(id), names, Payload_normalizeKey)

\* C23: for every candidate row of a request and each of the SSID, NIN and
\* full-name lists, the field resolver returns the normalized value of the
\* first key of the row whose normalized key is that of an accepted name
\* (the empty string if that value is null or absent), and the empty string
\* when no key is.
C23_FirstMatchingKey ==
  Answered =>
    \A i \in DOMAIN entries :
       /\ FieldOf(entries[i], FullNameNames) = ClaimedFieldOf(entries[i], FullNameNames)
       /\ FieldOf(entries[i], IndexSsidNames) = ClaimedFieldOf(entries[i], IndexSsidNames)
       /\ FieldOf(entries[i], IndexNinNames) = ClaimedFieldOf(entries[i], IndexNinNames)

(***************************************************************************)
(* C24                                                                     *)
(***************************************************************************)
\* The cells of a row that are strings and not empty.
NonEmptyStringCells(row) ==
  Cardinality({ i \in DOMAIN row : row[i].t = "string" /\ row[i] # Str(<< >>) })

\* A row the claim rejects: fewer than two non-empty cells, or fewer than half
\* of its non-empty cells are strings.
RejectedRow(id) ==
  \/ totalCellCount(SheetRow(id)) < 2
  \/ 2 * NonEmptyStringCells(SheetRow(id)) < totalCellCount(SheetRow(id))

RejectedRows == { id \in SheetRowIds : RejectedRow(id) }

\* The sheet with each rejected row emptied, so that it has no keyword.
WithoutRejected(rows) ==
  [ i \in DOMAIN rows |-> IF rows[i] \in RejectedRows THEN "R_empty" ELSE rows[i] ]

\* C24: a row with fewer than two non-empty cells, or of which fewer than
\* half the non-empty cells are strings, contributes no keyword score (the
\* index found is the one found with the row emptied) and is the header
\* index only as the default 0.
C24_RejectedRows ==
  Scanned =>
    /\ findBestHeaderRowIndex(headerScan.impl, WithoutRejected(headerScan.rows))
         = headerScan.headerRowIndex
    /\ \A i \in DOMAIN headerScan.rows :
         (headerScan.rows[i] \in RejectedRows /\ headerScan.headerRowIndex = i - 1) => i = 1

(***************************************************************************)
(* C25                                                                     *)
(***************************************************************************)
\* The issues that name the SSID and those that name the NIN.
SsidIssues == { "SSID mismatch", "SSID not in records", "Missing SSID" }
NinIssues == { "NIN mismatch", "NIN not in records", "Missing NIN" }

\* The failed checks of candidate i against its best match, in the order the
\* reason enumerates them.
FailedChecks(i) ==
  (IF Agrees(Candidate(i).ssid, SourceRecord(BestOf(i)).ssid) THEN << >> ELSE << "SSID" >>)
  \o (IF Agrees(Candidate(i).nin, SourceRecord(BestOf(i)).nin) THEN << >> ELSE << "NIN" >>)
  \o (IF SimilarityOf(i) >= 90 THEN << >> ELSE << "Name" >>)

\* What an issue of the reason is about.
CheckOf(issue) ==
  IF issue \in SsidIssues THEN "SSID" ELSE IF issue \in NinIssues THEN "NIN" ELSE "Name"

\* C25: the reason of a Partial Match result enumerates exactly the failed
\* checks, each once: an SSID issue if and only if SSID agreement failed, a
\* NIN issue if and only if NIN agreement failed, the name similarity with
\* its percentage if and only if the similarity is below 90, and at least
\* one of them; the reason of a Valid result is the verification with the
\* similarity percentage and no issue.
C25_ReasonEnumeratesFailures ==
  Answered =>
    \A i \in DOMAIN results :
       /\ results[i].status = "Partial Match" =>
            /\ Compared(i)
            /\ results[i].kind = "Issues"
            /\ results[i].issues # << >>
            /\ [ m \in DOMAIN results[i].issues |-> CheckOf(results[i].issues[m]) ]
                 = FailedChecks(i)
            /\ Lists(i, "Name similarity") <=> results[i].sim < 90
            /\ results[i].sim = SimilarityOf(i)
       /\ results[i].status = "Valid" =>
            /\ Compared(i)
            /\ results[i].kind = "Verified"
            /\ results[i].issues = << >>
            /\ results[i].sim = SimilarityOf(i)
            /\ results[i].sim >= 90

\* A Partial Match whose reason enumerates an identifier that one side lacks
\* and the name similarity of 89.
C25_Witness ==
  /\ Answered
  /\ \E i \in DOMAIN results :
       /\ results[i].status = "Partial Match"
       /\ Len(results[i].issues) = 2
       /\ OneSided(Candidate(i).ssid, SourceRecord(BestOf(i)).ssid)
            \/ OneSided(Candidate(i).nin, SourceRecord(BestOf(i)).nin)
       /\ results[i].issues[2] = "Name similarity"
       /\ results[i].sim = 89

(***************************************************************************)
(* C26                                                                     *)
(***************************************************************************)
\* The candidate rows of a request that holds candidate i alone (with the
\* header row of the request's candidates, where the handler reads one).
Alone(i) ==
  IF handler = "url" THEN << entries[i] >> ELSE << entriesHeaderRow, entries[i] >>

\* The keys the indexing loop reads from the source records, in order.
SsidKeys ==
  [ k \in DOMAIN source |->
      IF handler = "url" THEN Url_fields[source[k]].ssid
      ELSE Payload_fields[sourceHeaderRow][source[k]].indexSsid ]

NinKeys ==
  [ k \in DOMAIN source |->
      IF handler = "url" THEN Url_fields[source[k]].nin
      ELSE Payload_fields[sourceHeaderRow][source[k]].indexNin ]

C27_ApproveShownRecord ==
  [][ \A i \in 1 .. MaxRows :
        Table_Approve(i) =>
          /\ Get(table.results[Displayed[i]], "Match Status").s
               \in { << "P","a","r","t","i","a","l"," ","M","a","t","c","h" >>,
                     << "I","n","v","a","l","i","d" >> }
          /\ table'.results = [ table.results EXCEPT ![Displayed[i]] = Approved(@) ]
    ]_vars

\* The cache key of a request for the given URL: the URL, or the default source.
RequestedKey(url) ==
  IF url # "" THEN url ELSE IF cache.impl = "lib" THEN "default" ELSE cache.apiEndpoint

\* The cache holds an entry for the key whose timestamp is less than ten
\* minutes old.
FreshEntry(key) ==
  /\ key \in DOMAIN cache.dataCache
  /\ cache.now - cache.dataCache[key].timestamp < 10 * 60 * 1000

\* C28: a call of getDataSource for a source (the default one or a URL of the
\* caller) whose cache entry is less than ten minutes old returns the cached map
\* and starts no fetch; any other call of a configured source starts a fetch, and
\* when the file arrives the map built from it replaces the entry of that key
\* and of no other; a fetch that fails leaves the cache as it was.
C28_CachedWithoutFetch ==
  [][ /\ \A url \in { "", "custom" } :
           Cache_Call(url) =>
             /\ cache'.dataCache = cache.dataCache
             /\ IF FreshEntry(RequestedKey(url))
                THEN /\ cache'.calls = cache.calls
                     /\ cache'.settled =
                          [ outcome |-> "hit",
                            dataMap |-> cache.dataCache[RequestedKey(url)].dataMap ]
                ELSE RequestedKey(url) # "" => Len(cache'.calls) = Len(cache.calls) + 1
      /\ \A k \in 1 .. MaxCalls, ok \in BOOLEAN :
           Cache_ApiResponds(k, ok) => cache'.dataCache = cache.dataCache
      /\ \A k \in 1 .. MaxCalls, ok \in BOOLEAN, file \in SourceFileIds :
           Cache_ContentResponds(k, ok, file) =>
             IF ok /\ file # "F_none"
             THEN /\ DOMAIN cache'.dataCache
                       = DOMAIN cache.dataCache \cup { cache.calls[k].cacheKey }
                  /\ \A key \in DOMAIN cache'.dataCache :
                       IF key = cache.calls[k].cacheKey
                       THEN cache'.dataCache[key].dataMap = Lib_dataMap(SourceFile(file))
                       ELSE cache'.dataCache[key] = cache.dataCache[key]
             ELSE cache'.dataCache = cache.dataCache
    ]_vars

\* C29: an uploaded-file URL in the state of the validation page is the URL
\* the upload of the selected file returned, also in every validate request
\* sent; and the response of an upload of a file that is no longer the
\* selected one changes neither the selection nor the URL.
C29_UrlOfSelectedFile ==
  /\ [](/\ page.toValidateFileUrl # ""
           => /\ page.toValidateFile # ""
              /\ page.toValidateFileUrl = UploadedUrl(page.toValidateFile)
        /\ page.request.toValidateUrl # ""
           => /\ page.request.file # ""
              /\ page.request.toValidateUrl = UploadedUrl(page.request.file))
  /\ [][ \A k \in 1 .. MaxUploads, ok \in BOOLEAN :
           (Page_UploadResponds(k, ok) /\ page.uploads[k] # page.toValidateFile)
             => /\ page'.toValidateFile = page.toValidateFile
                /\ page'.toValidateFileUrl = page.toValidateFileUrl ]_vars

\* The item has a name to verify that is not blank.
NameToVerify(item) ==
  /\ item.nameToVerify.t = "string"
  /\ trim(item.nameToVerify.s) # << >>

\* C30: a lookup request that is answered with results has one result per
\* lookup item, in the order of the items: 'Not Found' exactly when the item's
\* normalized SSID is not a key of the data source map; otherwise 'Lookup
\* Success' when the item has no non-blank name to verify, 'Match' when the
\* similarity of its name and the record's name is at least 90 and 'Mismatch'
\* when it is less.
C30_OneResultPerItem ==
  lookup.status = 200 =>
    /\ Len(lookup.results) = Len(lookup.lookups)
    /\ \A i \in DOMAIN lookup.lookups :
         LET item == LookupItem(lookup.lookups[i])
             result == lookup.results[i]
             key == normalize(item.ssid)
         IN /\ result.ssid = item.ssid
            /\ (result.status = "Not Found") = (key \notin DOMAIN lookup.dataSource)
            /\ key \in DOMAIN lookup.dataSource =>
                 IF ~NameToVerify(item) THEN result.status = "Lookup Success"
                 ELSE LET similarity ==
                            token_set_ratio(item.nameToVerify.s,
                              Lib_extractFullName(EntryOf(lookup.dataSource[key])),
                              lookup.simDiff).v
                      IN /\ result.nameSimilarity = Num(similarity)
                         /\ similarity >= 90 => result.status = "Match"
                         /\ similarity < 90 => result.status = "Mismatch"

\* A request answered with a 'Lookup Success' and then a 'Match' at exactly 90.
C30_Witness ==
  /\ lookup.status = 200
  /\ Len(lookup.results) = 2
  /\ lookup.results[1].status = "Lookup Success"
  /\ lookup.results[2].status = "Match"
  /\ lookup.results[2].nameSimilarity = Num(90)
====
